---- MODULE Spec2Model ----
(***************************************************************************)
(* The evidence pool of internal/evidence (pool.go): the pending and        *)
(* committed keyspaces of the evidence store, the in-memory evidence list,  *)
(* the atomic pending counter, the consensus buffer and the pruner.         *)
(*                                                                          *)
(* The pool is a record with the fields of the Go struct Pool.  Every       *)
(* method is an operator from a pool (and its arguments) to the pool it     *)
(* leaves behind; the actions of Spec run one whole method at a time, the   *)
(* actions of SpecConc run AddEvidence and Update one shared-memory access  *)
(* at a time on two threads, the actions of SpecKeys fill and list a pool   *)
(* of either key layout, the actions of SpecFault run the methods on a      *)
(* store whose operations may fail, and the actions of SpecOpen open, fill  *)
(* and open again a pool on a store that may come from older software.      *)
(* SpecList follows the nodes of the list under a consumer, SpecLock and    *)
(* SpecLockLive the pool mutex under two threads, SpecTypes the two         *)
(* variants of evidence of package types, and SpecReindex the               *)
(* reindex-event command.                                                   *)
(***************************************************************************)
EXTENDS Integers, Sequences, FiniteSets, TLC

\* ------------------------------------------------------------------ bounds
InitHeight == 2         \* LastBlockHeight of the state the pool is opened with
MaxHeight == 4          \* block heights are 1..MaxHeight
MaxTime == 1            \* block times are 0..MaxTime
MaxEvHeight == 1        \* heights of the evidence handed to the pool from outside
MaxAgeNumBlocks == 1    \* ConsensusParams.Evidence.MaxAgeNumBlocks of every state
MaxAgeDuration == 0     \* ConsensusParams.Evidence.MaxAgeDuration of every state
MaxBuffer == 1          \* vote pairs the consensus buffer holds at most
MaxListLen == 2         \* length of the evidence lists handed to CheckEvidence
MaxBlockEvidence == 1   \* evidence committed in one block (the list handed to Update)
MaxBytes == 2           \* largest byte budget handed to PendingEvidence
MaxSize == 2             \* calls that would raise evidenceSize above it are not made
MaxKeyEvidence == 3     \* pending evidence the pool of SpecKeys holds at most
MaxCalls == 1           \* calls each thread of SpecConc makes

\* --------------------------------------------------------- program constants
baseKeyCommitted == 0
baseKeyPending == 1
prefixCommitted == 9
prefixPending == 10

\* ------------------------------------------------------------------- data
Heights == 1..MaxHeight
Times == 0..MaxTime
Kinds == {"dup", "lca"}     \* DuplicateVoteEvidence, LightClientAttackEvidence

\* An evidence: its variant, Height(), Time(), and whether the checks of the
\* verifier other than the age check accept it (signatures, validator set).
Evidence == [kind : Kinds, height : Heights, time : Times, valid : BOOLEAN]

NoEv == [kind |-> "none", height |-> 0, time |-> 0, valid |-> FALSE]

\* The evidence that gossip, RPC and blocks hand to the pool.
EvidenceInputs ==
    {ev \in [kind : Kinds, height : 1..MaxEvHeight, time : Times, valid : BOOLEAN] :
        /\ ev.time = 0
        /\ (ev.valid \/ ev.kind = "dup")}

\* ev.Hash(): a hash of the whole content, as bytes; injective on the evidence
\* of heights below 256.  The order of the hashes is not the order of the heights.
Hash(ev) ==
    LET k == IF ev.kind = "dup" THEN 0 ELSE 1
        v == IF ev.valid THEN 0 ELSE 1
    IN  <<(k * 2 + v) * (MaxTime + 1) + ev.time, ev.height % 256>>

\* sm.State, as far as the pool reads it.
States == [LastBlockHeight : Heights, LastBlockTime : Times]

\* duplicateVoteSet: the pool reads VoteA.Height only.
VoteSets == [Height : Heights]

NoMeta == -1

VARIABLES
    pool,        \* the Pool
    blockStore,  \* BlockStore: height -> Header.Time of the block, or NoMeta
    last,        \* the last call of Spec: method, arguments, result, pool before it
    th,          \* the threads of SpecConc
    clist,       \* SpecList: the nodes of the CList behind evidenceList
    cursor,      \* SpecList: the element a consumer of the list holds
    tv,          \* SpecTypes: the evidence under ValidateBasic, Height and Hash
    mtx,         \* SpecLock: the thread that holds the pool mutex, 0 when free
    reported,    \* SpecLock: the vote pairs ReportConflictingVotes has appended
    examined,    \* SpecLock: the vote pairs the flushes have examined
    reindex      \* SpecReindex: the run of the reindex-event command

typeVars == <<tv>>

lockVars == <<mtx, reported, examined>>

cmdVars == <<reindex>>

\* The variables that the specifications of the pool's methods leave alone.
others == <<clist, cursor, typeVars, lockVars, cmdVars>>

vars == <<pool, blockStore, last, th, others>>

\* ----------------------------------------------------------- key layouts
\* Keys are byte strings, a byte being a number in 0..255.
\* The ASCII code of an upper-case hexadecimal digit.
HexDigit(d) == IF d < 10 THEN 48 + d ELSE 55 + d

\* fmt's %X of a non-negative integer.
RECURSIVE Hex(_)
Hex(n) == IF n < 16 THEN <<HexDigit(n)>> ELSE Hex(n \div 16) \o <<HexDigit(n % 16)>>

\* fmt's %X of a byte string: two digits a byte.
RECURSIVE HexBytes(_)
HexBytes(bs) ==
    IF bs = <<>> THEN <<>>
    ELSE <<HexDigit(Head(bs) \div 16), HexDigit(Head(bs) % 16)>> \o HexBytes(Tail(bs))

\* The digits of a number, padded with '0' to the precision of %0.16X.
Pad16(digits) == [i \in 1..(16 - Len(digits)) |-> 48] \o digits

\* Mutant (C17): the height is printed without padding.
bEUnpadded(h) == IF h < 0 THEN <<45>> \o Hex(-h) ELSE Hex(h)

\* bE: big endian padded hex; fmt puts '-' before the digits of a negative number.
bE(h) == IF h < 0 THEN <<45>> \o Pad16(Hex(-h)) ELSE Pad16(Hex(h))

\* keySuffix: "%s/%X" of bE(Height()) and Hash().
keySuffix(ev) == bE(ev.height) \o <<47>> \o HexBytes(Hash(ev))

\* orderedcode.Append of an int64: n bytes that start with n one bits and a
\* zero bit and hold the number in the 7n-1 bits left; a negative number is
\* the encoding of its complement with every bit inverted.
Int64Len(x) ==
    IF x < 64 THEN 1 ELSE IF x < 8192 THEN 2 ELSE IF x < 1048576 THEN 3
    ELSE IF x < 134217728 THEN 4 ELSE 5

RECURSIVE BigEndian(_, _)
BigEndian(x, n) == IF n = 0 THEN <<>> ELSE BigEndian(x \div 256, n - 1) \o <<x % 256>>

AppendInt64(x) ==
    LET y == IF x < 0 THEN -x - 1 ELSE x
        n == Int64Len(y)
        b == [BigEndian(y, n) EXCEPT ![1] = @ + 256 - 2^(8 - n)]
    IN  IF x < 0 THEN [i \in 1..n |-> 255 - b[i]] ELSE b

\* orderedcode.Append of a string: 0x00 and 0xff are escaped, 0x00 0x01 ends it.
RECURSIVE AppendString(_)
AppendString(bs) ==
    IF bs = <<>> THEN <<0, 1>>
    ELSE (IF Head(bs) = 0 THEN <<0, 255>>
          ELSE IF Head(bs) = 255 THEN <<255, 0>>
          ELSE <<Head(bs)>>) \o AppendString(Tail(bs))

PrefixToBytesPending(layout) ==
    IF layout = "v1" THEN <<baseKeyPending>> ELSE AppendInt64(prefixPending)

PrefixToBytesCommitted(layout) ==
    IF layout = "v1" THEN <<baseKeyCommitted>> ELSE AppendInt64(prefixCommitted)

CalcKeyPending(layout, ev) ==
    IF layout = "v1" THEN <<baseKeyPending>> \o keySuffix(ev)
    ELSE AppendInt64(prefixPending) \o AppendInt64(ev.height) \o AppendString(Hash(ev))

CalcKeyCommitted(layout, ev) ==
    IF layout = "v1" THEN <<baseKeyCommitted>> \o keySuffix(ev)
    ELSE AppendInt64(prefixCommitted) \o AppendInt64(ev.height) \o AppendString(Hash(ev))

\* bytes.Compare(k1, k2) < 0: the order the store iterates its keys in.
KeyLess(k1, k2) ==
    \/ \E i \in 1..Len(k1) :
          /\ i <= Len(k2)
          /\ k1[i] < k2[i]
          /\ \A j \in 1..(i - 1) : k1[j] = k2[j]
    \/ Len(k1) < Len(k2) /\ \A j \in 1..Len(k1) : k1[j] = k2[j]

HasPrefix(k, prefix) ==
    Len(k) >= Len(prefix) /\ \A j \in 1..Len(prefix) : k[j] = prefix[j]

\* dbm.IteratePrefix: the keys under a prefix, ascending.
RECURSIVE SortKeys(_)
SortKeys(ks) ==
    IF ks = {} THEN <<>>
    ELSE LET k == CHOOSE x \in ks : \A y \in ks : x = y \/ KeyLess(x, y)
         IN  <<k>> \o SortKeys(ks \ {k})

IteratePrefix(db, prefix) == SortKeys({k \in DOMAIN db.data : HasPrefix(k, prefix)})

\* The evidence store is [data, version, fault]: the entries, the version
\* record, and the kinds of operation ("set", "delete", "iterate") that
\* return an error for as long as the call in progress lasts.
Faults == {{}, {"set"}, {"delete"}, {"iterate"}}

\* evidenceStore.Set / Delete: a failed operation leaves the store as it is.
dbSet(db, key, val) ==
    IF "set" \in db.fault THEN db
    ELSE [db EXCEPT !.data = [k \in (DOMAIN db.data) \cup {key} |->
                                 IF k = key THEN val ELSE db.data[k]]]

dbDelete(db, key) ==
    IF "delete" \in db.fault THEN db
    ELSE [db EXCEPT !.data = [k \in (DOMAIN db.data) \ {key} |-> db.data[k]]]

\* The error of Set, Delete and IteratePrefix: TRUE when the operation fails.
setFails(db) == "set" \in db.fault

deleteFails(db) == "delete" \in db.fault

iterateFails(db) == "iterate" \in db.fault

isEmpty(db) == DOMAIN db.data = {} /\ db.version = ""

\* ------------------------------------------------------------- the pool
\* evidenceSize is a uint32.  The model holds it as the int32 of the same bits
\* (two's complement): -1 is the uint32 4294967295, the value a decrement of 0
\* wraps to, and a uint32 is greater than 0 exactly when it is not 0.
Size(p) == p.evidenceSize

Positive(u) == u # 0

\* Mutant (C16): evidence too old by height or by time is expired.
isExpiredEither(p, height, time) ==
    LET ageDuration == p.state.LastBlockTime - time
        ageNumBlocks == p.state.LastBlockHeight - height
    IN  ageNumBlocks > MaxAgeNumBlocks \/ ageDuration > MaxAgeDuration

isExpired(p, height, time) ==
    LET ageDuration == p.state.LastBlockTime - time
        ageNumBlocks == p.state.LastBlockHeight - height
    IN  ageNumBlocks > MaxAgeNumBlocks /\ ageDuration > MaxAgeDuration

isCommitted(p, ev) == CalcKeyCommitted(p.dbKeyLayout, ev) \in DOMAIN p.evidenceStore.data

isPending(p, ev) == CalcKeyPending(p.dbKeyLayout, ev) \in DOMAIN p.evidenceStore.data

\* verify (verify.go): "" when the evidence is accepted, else the reason.
verify(p, ev) ==
    IF isExpired(p, ev.height, ev.time) THEN "expired"
    ELSE IF ~ev.valid THEN "invalid"
    ELSE ""

\* Mutant (C8): the counter is not raised.
addPendingCountForgotten(p) == p

\* addPendingEvidence, its two writes: the store, then the counter.
addPendingSet(p, ev) ==
    [p EXCEPT !.evidenceStore = dbSet(@, CalcKeyPending(p.dbKeyLayout, ev), ev)]

addPendingCount(p) == [p EXCEPT !.evidenceSize = @ + 1]

\* The counter is raised when Set returned no error.
addPendingEvidence(p, ev) ==
    IF setFails(p.evidenceStore) THEN p ELSE addPendingCount(addPendingSet(p, ev))

\* Mutant (C3): the delete is given the committed key of the evidence.
removePendingDeleteCommittedKey(p, ev) ==
    [p EXCEPT !.evidenceStore = dbDelete(@, CalcKeyCommitted(p.dbKeyLayout, ev))]

\* removePendingEvidence, its two writes: the store, then the counter.
removePendingDelete(p, ev) ==
    [p EXCEPT !.evidenceStore = dbDelete(@, CalcKeyPending(p.dbKeyLayout, ev))]

removePendingCount(p) == [p EXCEPT !.evidenceSize = @ - 1]

\* The counter is lowered when Delete returned no error.
removePendingEvidence(p, ev) ==
    IF deleteFails(p.evidenceStore) THEN p
    ELSE removePendingCount(removePendingDelete(p, ev))

PushBack(p, ev) == [p EXCEPT !.evidenceList = Append(@, ev)]

\* removeEvidenceFromList: drops every element whose hash is in the map.
removeEvidenceFromList(p, blockEvidenceMap) ==
    [p EXCEPT !.evidenceList =
        SelectSeq(@, LAMBDA e : Hash(e) \notin blockEvidenceMap)]


\* evMapKey: the key of blockEvidenceMap.
evMapKey(ev) == Hash(ev)

\* Mutant (C4): the pending key is left in place when the evidence is marked.
markOneKeepsPending(acc, ev) ==
    LET hit == isPending(acc.pool, ev)
        p2 == [acc.pool EXCEPT !.evidenceStore =
                  dbSet(@, CalcKeyCommitted(acc.pool.dbKeyLayout, ev), ev.height)]
    IN  [pool |-> p2,
         map |-> IF hit THEN acc.map \cup {evMapKey(ev)} ELSE acc.map]

\* The write of the committed marker: the key maps to the height.
markSet(p, ev) ==
    [p EXCEPT !.evidenceStore = dbSet(@, CalcKeyCommitted(p.dbKeyLayout, ev), ev.height)]

\* One iteration of the loop of markEvidenceAsCommitted: [pool, map].
markOne(acc, ev) ==
    LET hit == isPending(acc.pool, ev)
        p1 == IF hit THEN removePendingEvidence(acc.pool, ev) ELSE acc.pool
        p2 == markSet(p1, ev)
    IN  [pool |-> p2,
         map |-> IF hit THEN acc.map \cup {evMapKey(ev)} ELSE acc.map]

RECURSIVE markLoop(_, _, _)
markLoop(acc, evidence, i) ==
    IF i > Len(evidence) THEN acc
    ELSE markLoop(markOne(acc, evidence[i]), evidence, i + 1)

markEvidenceAsCommitted(p, evidence) ==
    LET acc == markLoop([pool |-> p, map |-> {}], evidence, 1)
    IN  IF acc.map # {} THEN removeEvidenceFromList(acc.pool, acc.map) ELSE acc.pool

\* The proto size of an evidence list: the sum of the sizes of its elements.
ByteSize(ev) == IF ev.kind = "lca" THEN 2 ELSE 1

\* bytesToEv / Unmarshal: a stored value that cannot be deserialized is kept
\* in the store as a record of kind "corrupt".
Decodable(val) == val.kind # "corrupt"

\* Mutant (C18): an entry that does not fit is passed over and the scan goes on.
RECURSIVE listLoopSkips(_, _, _, _, _, _)
listLoopSkips(db, keys, i, maxBytes, evidence, totalSize) ==
    IF i > Len(keys) THEN [evidence |-> evidence, size |-> totalSize, err |-> ""]
    ELSE LET ev == db.data[keys[i]]
             evSize == totalSize + ByteSize(ev)
         IN  IF maxBytes # -1 /\ evSize > maxBytes
             THEN listLoopSkips(db, keys, i + 1, maxBytes, evidence, totalSize)
             ELSE listLoopSkips(db, keys, i + 1, maxBytes, Append(evidence, ev), evSize)

\* The loop of listEvidence: [evidence, size, err], oldest first, within
\* maxBytes (-1: no cap); a value that cannot be deserialized ends it with an error.
RECURSIVE listLoop(_, _, _, _, _, _)
listLoop(db, keys, i, maxBytes, evidence, totalSize) ==
    IF i > Len(keys) THEN [evidence |-> evidence, size |-> totalSize, err |-> ""]
    ELSE LET ev == db.data[keys[i]]
             evSize == totalSize + ByteSize(ev)
         IN  IF ~Decodable(ev)
             THEN [evidence |-> evidence, size |-> totalSize, err |-> "Unmarshal"]
             ELSE IF maxBytes # -1 /\ evSize > maxBytes
             THEN [evidence |-> evidence, size |-> totalSize, err |-> ""]
             ELSE listLoop(db, keys, i + 1, maxBytes, Append(evidence, ev), evSize)

listEvidence(p, prefixKey, maxBytes) ==
    IF iterateFails(p.evidenceStore)
    THEN [evidence |-> <<>>, size |-> 0, err |-> "database error"]
    ELSE listLoop(p.evidenceStore, IteratePrefix(p.evidenceStore, prefixKey), 1,
                  maxBytes, <<>>, 0)

OneSecond == 1          \* time.Second, the unit of Times

\* Mutant (C35): the entries deleted from the store stay in the list.
RECURSIVE pruneLoopKeepsList(_, _, _, _)
pruneLoopKeepsList(p, keys, i, blockEvidenceMap) ==
    IF i > Len(keys)
    THEN [pool |-> p, height |-> p.state.LastBlockHeight, time |-> p.state.LastBlockTime]
    ELSE LET ev == p.evidenceStore.data[keys[i]]
         IN  IF ~Decodable(ev) THEN pruneLoopKeepsList(p, keys, i + 1, blockEvidenceMap)
             ELSE IF ~isExpired(p, ev.height, ev.time)
             THEN [pool |-> p,
                   height |-> ev.height + MaxAgeNumBlocks + 1,
                   time |-> ev.time + MaxAgeDuration + OneSecond]
             ELSE pruneLoopKeepsList(removePendingEvidence(p, ev), keys, i + 1,
                                     blockEvidenceMap)

\* removeExpiredPendingEvidence: [pool, height, time].
RECURSIVE pruneLoop(_, _, _, _)
pruneLoop(p, keys, i, blockEvidenceMap) ==
    IF i > Len(keys)
    THEN [pool |-> IF blockEvidenceMap # {}
                   THEN removeEvidenceFromList(p, blockEvidenceMap) ELSE p,
          height |-> p.state.LastBlockHeight,
          time |-> p.state.LastBlockTime]
    ELSE LET ev == p.evidenceStore.data[keys[i]]
         IN  IF ~Decodable(ev) THEN pruneLoop(p, keys, i + 1, blockEvidenceMap)
             ELSE IF ~isExpired(p, ev.height, ev.time)
             THEN [pool |-> IF blockEvidenceMap # {}
                            THEN removeEvidenceFromList(p, blockEvidenceMap) ELSE p,
                   height |-> ev.height + MaxAgeNumBlocks + 1,
                   time |-> ev.time + MaxAgeDuration + OneSecond]
             ELSE pruneLoop(removePendingEvidence(p, ev), keys, i + 1,
                            blockEvidenceMap \cup {evMapKey(ev)})

removeExpiredPendingEvidence(p) ==
    IF iterateFails(p.evidenceStore)
    THEN [pool |-> p, height |-> p.state.LastBlockHeight, time |-> p.state.LastBlockTime]
    ELSE pruneLoop(p, IteratePrefix(p.evidenceStore, PrefixToBytesPending(p.dbKeyLayout)),
                   1, {})

updateState(p, state) == [p EXCEPT !.state = state]

\* stateDB.LoadValidators and blockStore.LoadBlockMeta of a past height.
LoadBlockMeta(bs, h) == bs[h]

\* Mutant (C11): the evidence of every pair takes the time of the new block.
flushOneNewBlockTime(p, voteSet, state, bs) ==
    LET h == voteSet.Height
        made == IF h <= state.LastBlockHeight THEN state.LastBlockTime ELSE NoMeta
        dve == [kind |-> "dup", height |-> h, time |-> made, valid |-> TRUE]
    IN  IF made = NoMeta THEN p
        ELSE IF isPending(p, dve) THEN p
        ELSE IF isCommitted(p, dve) THEN p
        ELSE PushBack(addPendingEvidence(p, dve), dve)

\* One iteration of the loop of processConsensusBuffer.
flushOne(p, voteSet, state, bs) ==
    LET h == voteSet.Height
        made == IF h = state.LastBlockHeight THEN state.LastBlockTime
                ELSE IF h < state.LastBlockHeight THEN LoadBlockMeta(bs, h)
                ELSE NoMeta
        dve == [kind |-> "dup", height |-> h, time |-> made, valid |-> TRUE]
    IN  IF made = NoMeta THEN p
        ELSE IF isPending(p, dve) THEN p
        ELSE IF isCommitted(p, dve) THEN p
        ELSE IF setFails(p.evidenceStore) THEN p
        ELSE PushBack(addPendingEvidence(p, dve), dve)

RECURSIVE flushLoop(_, _, _, _, _)
flushLoop(p, buffer, i, state, bs) ==
    IF i > Len(buffer) THEN p
    ELSE flushLoop(flushOne(p, buffer[i], state, bs), buffer, i + 1, state, bs)

\* Mutant (C13): the pairs of a height above the new state stay in the buffer.
processConsensusBufferKeepsAhead(p, state, bs) ==
    [flushLoop(p, p.consensusBuffer, 1, state, bs) EXCEPT !.consensusBuffer =
        SelectSeq(p.consensusBuffer, LAMBDA v : v.Height > state.LastBlockHeight)]

processConsensusBuffer(p, state, bs) ==
    [flushLoop(p, p.consensusBuffer, 1, state, bs) EXCEPT !.consensusBuffer = <<>>]


\* ------------------------------------------------------- public methods
\* Each is [pool, err, out, size]: the pool left behind, the error returned
\* ("" for nil, "panic" for a panic), the evidence returned and the byte size
\* returned with it.
Ret(p, err, out) == [pool |-> p, err |-> err, out |-> out, size |-> 0]

\* Mutant (C27): the version the caller asks for is taken, whatever the store
\* records.
setDBLayoutCallerWins(db, dbKeyLayoutVersion) ==
    IF dbKeyLayoutVersion = "v2" THEN [db EXCEPT !.version = "v2"]
    ELSE [db EXCEPT !.version = "v1"]

setDBLayout(db, dbKeyLayoutVersion) ==
    LET v == IF ~isEmpty(db) /\ db.version # "" THEN db.version ELSE dbKeyLayoutVersion
    IN  IF v = "v2" THEN [db EXCEPT !.version = "v2"] ELSE [db EXCEPT !.version = "v1"]

\* Mutant (C29): the pending evidence of the store is counted and not loaded
\* into the list.
newPoolListNotLoaded(evidenceDB, state, option) ==
    LET db == setDBLayout(evidenceDB, IF option = "" THEN "v1" ELSE option)
        p0 == [evidenceStore |-> db,
               evidenceList |-> <<>>,
               evidenceSize |-> 0,
               state |-> state,
               consensusBuffer |-> <<>>,
               pruningHeight |-> 0,
               pruningTime |-> 0,
               dbKeyLayout |-> db.version]
        pr == removeExpiredPendingEvidence(p0)
        p1 == [pr.pool EXCEPT !.pruningHeight = pr.height, !.pruningTime = pr.time]
        l == listEvidence(p1, PrefixToBytesPending(db.version), -1)
    IN  IF l.err # "" THEN [pool |-> p1, err |-> l.err]
        ELSE [pool |-> [p1 EXCEPT !.evidenceSize = Len(l.evidence)], err |-> ""]

\* NewPool(evidenceDB, stateDB, blockStore, options...): option is the version
\* WithDBKeyLayout asks for, "" when the option is not given.  newPool is
\* [pool, err]: when listEvidence fails NewPool returns the error and no pool,
\* and pool is what it had built on the store until then.
newPool(evidenceDB, state, option) ==
    LET db == setDBLayout(evidenceDB, IF option = "" THEN "v1" ELSE option)
        p0 == [evidenceStore |-> db,
               evidenceList |-> <<>>,
               evidenceSize |-> 0,
               state |-> state,
               consensusBuffer |-> <<>>,
               pruningHeight |-> 0,
               pruningTime |-> 0,
               dbKeyLayout |-> db.version]
        pr == removeExpiredPendingEvidence(p0)
        p1 == [pr.pool EXCEPT !.pruningHeight = pr.height, !.pruningTime = pr.time]
        l == listEvidence(p1, PrefixToBytesPending(db.version), -1)
    IN  IF l.err # "" THEN [pool |-> p1, err |-> l.err]
        ELSE [pool |-> [p1 EXCEPT !.evidenceSize = Len(l.evidence),
                                  !.evidenceList = l.evidence],
              err |-> ""]

NewPool(evidenceDB, state, option) == newPool(evidenceDB, state, option).pool

PendingEvidence(p, maxBytes) ==
    IF Size(p) = 0 THEN Ret(p, "", <<>>)
    ELSE LET l == listEvidence(p, PrefixToBytesPending(p.dbKeyLayout), maxBytes)
         IN  IF l.err # "" THEN Ret(p, "", <<>>)
             ELSE [Ret(p, "", l.evidence) EXCEPT !.size = l.size]

\* Mutant (C7): the evidence is not verified.
AddEvidenceNoVerify(p, ev) ==
    IF isPending(p, ev) THEN Ret(p, "", <<>>)
    ELSE IF isCommitted(p, ev) THEN Ret(p, "", <<>>)
    ELSE Ret(PushBack(addPendingEvidence(p, ev), ev), "", <<>>)

\* Mutant (C9): pending evidence is not recognised.
AddEvidenceNoPendingCheck(p, ev) ==
    IF isCommitted(p, ev) THEN Ret(p, "", <<>>)
    ELSE IF verify(p, ev) # "" THEN Ret(p, "InvalidEvidence", <<>>)
    ELSE Ret(PushBack(addPendingEvidence(p, ev), ev), "", <<>>)

\* Mutant (C10): the evidence is verified before the committed marker is looked up.
AddEvidenceVerifyFirst(p, ev) ==
    IF isPending(p, ev) THEN Ret(p, "", <<>>)
    ELSE IF verify(p, ev) # "" THEN Ret(p, "InvalidEvidence", <<>>)
    ELSE IF isCommitted(p, ev) THEN Ret(p, "", <<>>)
    ELSE Ret(PushBack(addPendingEvidence(p, ev), ev), "", <<>>)

\* Mutant (C22): the error of the store is logged and the call goes on.
AddEvidenceIgnoresStoreError(p, ev) ==
    IF isPending(p, ev) THEN Ret(p, "", <<>>)
    ELSE IF isCommitted(p, ev) THEN Ret(p, "", <<>>)
    ELSE IF verify(p, ev) # "" THEN Ret(p, "InvalidEvidence", <<>>)
    ELSE Ret(PushBack(addPendingEvidence(p, ev), ev), "", <<>>)

AddEvidence(p, ev) ==
    IF isPending(p, ev) THEN Ret(p, "", <<>>)
    ELSE IF isCommitted(p, ev) THEN Ret(p, "", <<>>)
    ELSE IF verify(p, ev) # "" THEN Ret(p, "InvalidEvidence", <<>>)
    ELSE IF setFails(p.evidenceStore) THEN Ret(p, "StoreError", <<>>)
    ELSE Ret(PushBack(addPendingEvidence(p, ev), ev), "", <<>>)

\* Mutant (C12): the evidence is formed and stored when the votes are reported.
ReportConflictingVotesEager(p, voteSet) ==
    LET dve == [kind |-> "dup", height |-> voteSet.Height,
                time |-> p.state.LastBlockTime, valid |-> TRUE]
    IN  Ret(PushBack(addPendingEvidence(p, dve), dve), "", <<>>)

ReportConflictingVotes(p, voteSet) ==
    Ret([p EXCEPT !.consensusBuffer = Append(@, voteSet)], "", <<>>)

\* Mutant (C21): evidence that verifies is not stored.
RECURSIVE checkLoopNoAdd(_, _, _)
checkLoopNoAdd(p, evList, idx) ==
    IF idx > Len(evList) THEN Ret(p, "", <<>>)
    ELSE LET ev == evList[idx]
             look == ev.kind = "lca" \/ ~isPending(p, ev)
         IN  IF look /\ isCommitted(p, ev) THEN Ret(p, "AlreadyCommitted", <<>>)
             ELSE IF look /\ verify(p, ev) # "" THEN Ret(p, verify(p, ev), <<>>)
             ELSE IF \E i \in 1..(idx - 1) : Hash(evList[i]) = Hash(ev)
                  THEN Ret(p, "DuplicateEvidence", <<>>)
             ELSE checkLoopNoAdd(p, evList, idx + 1)

RECURSIVE checkLoop(_, _, _)
checkLoop(p, evList, idx) ==
    IF idx > Len(evList) THEN Ret(p, "", <<>>)
    ELSE LET ev == evList[idx]
             look == ev.kind = "lca" \/ ~isPending(p, ev)
             p1 == IF look THEN addPendingEvidence(p, ev) ELSE p
         IN  IF look /\ isCommitted(p, ev) THEN Ret(p, "AlreadyCommitted", <<>>)
             ELSE IF look /\ verify(p, ev) # "" THEN Ret(p, verify(p, ev), <<>>)
             ELSE IF \E i \in 1..(idx - 1) : Hash(evList[i]) = Hash(ev)
                  THEN Ret(p1, "DuplicateEvidence", <<>>)
             ELSE checkLoop(p1, evList, idx + 1)

CheckEvidence(p, evList) == checkLoop(p, evList, 1)

\* The pruning at the end of Update.
pruneIfDue(p, state) ==
    IF Positive(Size(p)) /\ state.LastBlockHeight > p.pruningHeight
                   /\ state.LastBlockTime > p.pruningTime
    THEN LET pr == removeExpiredPendingEvidence(p)
         IN  [pr.pool EXCEPT !.pruningHeight = pr.height, !.pruningTime = pr.time]
    ELSE p

\* Mutant (C23): an error of the store aborts the update.
UpdateAbortsOnStoreError(p, state, ev, bs) ==
    IF state.LastBlockHeight <= p.state.LastBlockHeight THEN Ret(p, "panic", <<>>)
    ELSE IF p.evidenceStore.fault # {} THEN Ret(p, "StoreError", <<>>)
    ELSE Ret(pruneIfDue(markEvidenceAsCommitted(
                 updateState(processConsensusBuffer(p, state, bs), state), ev), state),
             "", <<>>)

\* Mutant (C14): the sanity check lets the height of the pool's state through.
UpdateSameHeight(p, state, ev, bs) ==
    IF state.LastBlockHeight < p.state.LastBlockHeight THEN Ret(p, "panic", <<>>)
    ELSE Ret(pruneIfDue(markEvidenceAsCommitted(
                 updateState(processConsensusBuffer(p, state, bs), state), ev), state),
             "", <<>>)

Update(p, state, ev, bs) ==
    IF state.LastBlockHeight <= p.state.LastBlockHeight THEN Ret(p, "panic", <<>>)
    ELSE Ret(pruneIfDue(markEvidenceAsCommitted(
                 updateState(processConsensusBuffer(p, state, bs), state), ev), state),
             "", <<>>)

\* --------------------------------------------------------------- inputs
\* The evidence stored under the pending prefix.
PendingSet(p) ==
    {p.evidenceStore.data[k] :
        k \in {x \in DOMAIN p.evidenceStore.data :
                  HasPrefix(x, PrefixToBytesPending(p.dbKeyLayout))}}

\* The sequences over S of length at most n.
SeqsUpTo(S, n) == UNION {[1..m -> S] : m \in 0..n}

\* A block carries evidence that gossip delivered or that a pool flushed from
\* its consensus buffer.
BlockEvidence(p) == {e \in EvidenceInputs : e.valid} \cup PendingSet(p)

InitState == [LastBlockHeight |-> InitHeight, LastBlockTime |-> 0]

EmptyDB == [data |-> <<>>, version |-> "", fault |-> {}]

\* The record of a call: the method, its arguments (an evidence, an evidence
\* list, a state, a number, a layout version), what it returned, and the pool
\* before it.  again tells, for AddEvidence(ev), whether the call before it was
\* AddEvidence of the same ev and how that one returned.
Call(op, ev, evs, state, n, r, again, pre) ==
    [op |-> op, ev |-> ev, evs |-> evs, state |-> state, n |-> n,
     err |-> r.err, out |-> r.out, size |-> r.size, again |-> again, pre |-> pre]

\* The CList behind evidenceList: node e is nodes[e], 0 is nil.  A node keeps
\* its next pointer when it is removed; after is the set of the elements that
\* followed it in the list when it was removed.
EmptyCList == [nodes |-> <<>>, head |-> 0, tail |-> 0]

\* The consumer holds no element.
NoCursor == 0

\* No evidence is under validation, the mutex is free, no vote pair has been
\* examined and the command does not run.
IdleTypes == tv = [op |-> "none"]

IdleLock == mtx = 0 /\ reported = <<>> /\ examined = <<>>

IdleCmd == reindex = [pc |-> "none"]

IdleOthers ==
    /\ clist = EmptyCList
    /\ cursor = NoCursor
    /\ IdleTypes
    /\ IdleLock
    /\ IdleCmd

Threads == {1, 2}

\* A thread: where it is in its call (pc), the method and its arguments, the
\* index and the map of the loop of markEvidenceAsCommitted, the error the
\* call returned, the calls it has made, and, of an AddEvidence, whether an
\* Update was in progress when it was called or has been called since
\* (disturbed).
Idle == [t \in Threads |->
            [pc |-> "idle", op |-> "none", ev |-> NoEv, evs |-> <<>>, state |-> InitState,
             i |-> 0, map |-> {}, err |-> "", calls |-> 0, disturbed |-> FALSE]]

Init ==
    /\ \E option \in {""} :
        LET p == NewPool(EmptyDB, InitState, option)
        IN  /\ pool = p
            /\ last = Call("NewPool", NoEv, <<>>, InitState, 0, Ret(p, "", <<>>), "no", p)
    /\ blockStore = [h \in Heights |-> IF h <= InitHeight THEN 0 ELSE NoMeta]
    /\ th = Idle
    /\ IdleOthers

\* ------------------------------------------------- the actions of Spec
\* A call is made when the record of the call before it has been dropped
\* (Forget); AddEvidence is also made right after an AddEvidence, so that
\* last.again tells a repeated call.
NoCall(p) == Call("none", NoEv, <<>>, p.state, 0, Ret(p, "", <<>>), "no", p)

Returned == last.op = "none"

Forget ==
    /\ last.op # "none"
    /\ last' = NoCall(pool)
    /\ UNCHANGED <<pool, blockStore, th, others>>

NewPoolCall ==
    /\ Returned
    /\ \E option \in {"", "v1", "v2"} :
        LET p == NewPool(pool.evidenceStore, pool.state, option)
        IN  /\ pool' = p
            /\ last' = Call("NewPool", NoEv, <<>>, pool.state, 0, Ret(p, "", <<>>), "no", pool)
            /\ UNCHANGED <<blockStore, th, others>>

AddEvidenceCall ==
    /\ Returned \/ last.op = "AddEvidence"
    /\ \E ev \in EvidenceInputs :
        LET r == AddEvidence(pool, ev)
            again == IF last.op = "AddEvidence" /\ last.ev = ev
                     THEN (IF last.err = "" THEN "afterOk" ELSE "afterErr")
                     ELSE "no"
        IN  /\ Size(r.pool) <= MaxSize
            /\ pool' = r.pool
            /\ last' = Call("AddEvidence", ev, <<>>, pool.state, 0, r, again, pool)
            /\ UNCHANGED <<blockStore, th, others>>

CheckEvidenceCall ==
    /\ Returned
    /\ \E evList \in SeqsUpTo(EvidenceInputs, MaxListLen) :
        LET r == CheckEvidence(pool, evList)
        IN  /\ Size(r.pool) <= MaxSize
            /\ pool' = r.pool
            /\ last' = Call("CheckEvidence", NoEv, evList, pool.state, 0, r, "no", pool)
            /\ UNCHANGED <<blockStore, th, others>>

ReportConflictingVotesCall ==
    /\ Returned
    /\ Len(pool.consensusBuffer) < MaxBuffer
    /\ \E voteSet \in VoteSets :
        LET r == ReportConflictingVotes(pool, voteSet)
        IN  /\ pool' = r.pool
            /\ last' = Call("ReportConflictingVotes", NoEv, <<>>, pool.state,
                            voteSet.Height, r, "no", pool)
            /\ UNCHANGED <<blockStore, th, others>>

\* The block of the new state is in the block store when Update is called.
UpdateCall ==
    /\ Returned
    /\ \E state \in States, ev \in SeqsUpTo(BlockEvidence(pool), MaxBlockEvidence) :
        /\ state.LastBlockTime >= pool.state.LastBlockTime
        /\ state.LastBlockHeight <= pool.state.LastBlockHeight => ev = <<>>
        /\ LET r == Update(pool, state, ev, blockStore)
           IN  /\ Size(r.pool) <= MaxSize
               /\ pool' = r.pool
               /\ last' = Call("Update", NoEv, ev, state, 0, r, "no", pool)
               /\ blockStore' = IF r.err = "" THEN
                                   [blockStore EXCEPT ![state.LastBlockHeight] = state.LastBlockTime]
                                ELSE blockStore
               /\ UNCHANGED <<th, others>>

\* PendingEvidence(-1) is also called right after an AddEvidence: last.ev is
\* then the evidence of that call, and last.again is "afterAdded" when that
\* call returned ok for evidence that was neither pending nor committed.
PendingEvidenceCall ==
    \E maxBytes \in -1..MaxBytes :
        /\ Returned \/ (last.op = "AddEvidence" /\ maxBytes = -1)
        /\ LET r == PendingEvidence(pool, maxBytes)
               ev == IF last.op = "AddEvidence" THEN last.ev ELSE NoEv
               again == IF /\ last.op = "AddEvidence"
                           /\ last.err = ""
                           /\ ~isPending(last.pre, last.ev)
                           /\ ~isCommitted(last.pre, last.ev)
                        THEN "afterAdded" ELSE "no"
           IN  /\ pool' = r.pool
               /\ last' = Call("PendingEvidence", ev, <<>>, pool.state, maxBytes, r, again, pool)
               /\ UNCHANGED <<blockStore, th, others>>

Next ==
    \/ Forget
    \/ NewPoolCall
    \/ AddEvidenceCall
    \/ CheckEvidenceCall
    \/ ReportConflictingVotesCall
    \/ UpdateCall
    \/ PendingEvidenceCall

Spec == Init /\ [][Next]_vars


\* --------------------------------------------- the actions of SpecConc
\* Two threads call AddEvidence and Update.  A step is one access to the
\* evidence store, the counter, the list or the state; the flush of the
\* consensus buffer and the pruning are one step each, and so is the one
\* call of CheckEvidence.
Free(t) == th[t].pc \in {"idle", "done"} /\ th[t].calls < MaxCalls

Goto(t, pc) == th' = [th EXCEPT ![t].pc = pc]

Return(t, err) == th' = [th EXCEPT ![t].pc = "done", ![t].err = err]

InUpdate(ts) == \E u \in ts : th[u].op = "Update" /\ th[u].pc # "done"

StartAdd(t) ==
    /\ Free(t)
    /\ \E ev \in EvidenceInputs :
        th' = [th EXCEPT ![t] = [pc |-> "addIsPending", op |-> "AddEvidence", ev |-> ev,
                                 evs |-> <<>>, state |-> pool.state, i |-> 0, map |-> {},
                                 err |-> "", calls |-> th[t].calls + 1,
                                 disturbed |-> InUpdate(Threads \ {t})]]
    /\ UNCHANGED <<pool, blockStore, last, others>>

AddIsPending(t) ==
    /\ th[t].pc = "addIsPending"
    /\ IF isPending(pool, th[t].ev) THEN Return(t, "") ELSE Goto(t, "addIsCommitted")
    /\ UNCHANGED <<pool, blockStore, last, others>>

AddIsCommitted(t) ==
    /\ th[t].pc = "addIsCommitted"
    /\ IF isCommitted(pool, th[t].ev) THEN Return(t, "") ELSE Goto(t, "addVerify")
    /\ UNCHANGED <<pool, blockStore, last, others>>

AddVerify(t) ==
    /\ th[t].pc = "addVerify"
    /\ IF verify(pool, th[t].ev) # "" THEN Return(t, "InvalidEvidence") ELSE Goto(t, "addSet")
    /\ UNCHANGED <<pool, blockStore, last, others>>

AddSet(t) ==
    /\ th[t].pc = "addSet"
    /\ pool' = addPendingSet(pool, th[t].ev)
    /\ Goto(t, "addCount")
    /\ UNCHANGED <<blockStore, last, others>>

AddCount(t) ==
    /\ th[t].pc = "addCount"
    /\ pool' = addPendingCount(pool)
    /\ Goto(t, "addPush")
    /\ UNCHANGED <<blockStore, last, others>>

AddPush(t) ==
    /\ th[t].pc = "addPush"
    /\ pool' = PushBack(pool, th[t].ev)
    /\ Return(t, "")
    /\ UNCHANGED <<blockStore, last, others>>

\* The block of the new state is in the block store when Update is called.
StartUpdate(t) ==
    /\ Free(t)
    /\ \E state \in States, ev \in SeqsUpTo(BlockEvidence(pool), MaxBlockEvidence) :
        /\ state.LastBlockTime >= pool.state.LastBlockTime
        /\ state.LastBlockHeight <= pool.state.LastBlockHeight => ev = <<>>
        /\ blockStore[state.LastBlockHeight] \in {NoMeta, state.LastBlockTime}
        /\ th' = [u \in Threads |->
                    IF u = t
                    THEN [pc |-> "updCheck", op |-> "Update", ev |-> NoEv,
                          evs |-> ev, state |-> state, i |-> 1, map |-> {},
                          err |-> "", calls |-> th[t].calls + 1, disturbed |-> FALSE]
                    ELSE [th[u] EXCEPT !.disturbed = th[u].op = "AddEvidence"]]
        /\ blockStore' = [blockStore EXCEPT ![state.LastBlockHeight] = state.LastBlockTime]
    /\ UNCHANGED <<pool, last, others>>

UpdCheck(t) ==
    /\ th[t].pc = "updCheck"
    /\ IF th[t].state.LastBlockHeight <= pool.state.LastBlockHeight
       THEN Return(t, "panic") ELSE Goto(t, "updFlush")
    /\ UNCHANGED <<pool, blockStore, last, others>>

UpdFlush(t) ==
    /\ th[t].pc = "updFlush"
    /\ pool' = processConsensusBuffer(pool, th[t].state, blockStore)
    /\ Goto(t, "updState")
    /\ UNCHANGED <<blockStore, last, others>>

UpdState(t) ==
    /\ th[t].pc = "updState"
    /\ pool' = updateState(pool, th[t].state)
    /\ Goto(t, "markIsPending")
    /\ UNCHANGED <<blockStore, last, others>>

MarkIsPending(t) ==
    /\ th[t].pc = "markIsPending"
    /\ IF th[t].i > Len(th[t].evs) THEN Goto(t, "markList")
       ELSE IF isPending(pool, th[t].evs[th[t].i]) THEN Goto(t, "markDelete")
       ELSE Goto(t, "markSet")
    /\ UNCHANGED <<pool, blockStore, last, others>>

MarkDelete(t) ==
    /\ th[t].pc = "markDelete"
    /\ pool' = removePendingDelete(pool, th[t].evs[th[t].i])
    /\ Goto(t, "markCount")
    /\ UNCHANGED <<blockStore, last, others>>

MarkCount(t) ==
    /\ th[t].pc = "markCount"
    /\ pool' = removePendingCount(pool)
    /\ th' = [th EXCEPT ![t].pc = "markSet",
                        ![t].map = @ \cup {evMapKey(th[t].evs[th[t].i])}]
    /\ UNCHANGED <<blockStore, last, others>>

MarkSet(t) ==
    /\ th[t].pc = "markSet"
    /\ pool' = markSet(pool, th[t].evs[th[t].i])
    /\ th' = [th EXCEPT ![t].pc = "markIsPending", ![t].i = @ + 1]
    /\ UNCHANGED <<blockStore, last, others>>

MarkList(t) ==
    /\ th[t].pc = "markList"
    /\ pool' = IF th[t].map # {} THEN removeEvidenceFromList(pool, th[t].map) ELSE pool
    /\ Goto(t, "updPrune")
    /\ UNCHANGED <<blockStore, last, others>>

UpdPrune(t) ==
    /\ th[t].pc = "updPrune"
    /\ pool' = pruneIfDue(pool, th[t].state)
    /\ Return(t, "")
    /\ UNCHANGED <<blockStore, last, others>>

\* A block is validated while the threads run: CheckEvidence, whole, called
\* once; last is the record of that call.
CheckEvidenceConc ==
    /\ last.op # "CheckEvidence"
    /\ \E evList \in SeqsUpTo(EvidenceInputs, MaxListLen) :
        LET r == CheckEvidence(pool, evList)
        IN  /\ Size(r.pool) <= MaxSize
            /\ pool' = r.pool
            /\ last' = Call("CheckEvidence", NoEv, evList, pool.state, 0, r, "no", pool)
            /\ UNCHANGED <<blockStore, th, others>>

NextConc ==
    \/ CheckEvidenceConc
    \/ \E t \in Threads :
        \/ StartAdd(t)
        \/ AddIsPending(t)
        \/ AddIsCommitted(t)
        \/ AddVerify(t)
        \/ AddSet(t)
        \/ AddCount(t)
        \/ AddPush(t)
        \/ StartUpdate(t)
        \/ UpdCheck(t)
        \/ UpdFlush(t)
        \/ UpdState(t)
        \/ MarkIsPending(t)
        \/ MarkDelete(t)
        \/ MarkCount(t)
        \/ MarkSet(t)
        \/ MarkList(t)
        \/ UpdPrune(t)

SpecConc == Init /\ [][NextConc]_vars

\* -------------------------------------------- the actions of SpecFault
\* The calls of Spec on a store whose Set, Delete or IteratePrefix may fail
\* for the length of one call; last.pre is the pool with the store as the
\* call finds it.
WithFault(p, fault) == [p EXCEPT !.evidenceStore.fault = fault]

AddEvidenceFault ==
    /\ Returned \/ (last.op = "AddEvidence" /\ last.err = "StoreError")
    /\ \E ev \in EvidenceInputs, fault \in Faults :
        LET pre == WithFault(pool, fault)
            r == AddEvidence(pre, ev)
            again == IF last.op = "AddEvidence" THEN "afterStoreError" ELSE "no"
        IN  /\ last.op = "AddEvidence" => ev = last.ev
            /\ Size(r.pool) <= MaxSize
            /\ pool' = WithFault(r.pool, {})
            /\ last' = Call("AddEvidence", ev, <<>>, pool.state, 0, r, again, pre)
            /\ UNCHANGED <<blockStore, th, others>>

UpdateFault ==
    /\ Returned
    /\ \E state \in States, ev \in SeqsUpTo(BlockEvidence(pool), MaxBlockEvidence),
          fault \in Faults :
        /\ state.LastBlockTime >= pool.state.LastBlockTime
        /\ state.LastBlockHeight <= pool.state.LastBlockHeight => ev = <<>>
        /\ LET pre == WithFault(pool, fault)
               r == Update(pre, state, ev, blockStore)
           IN  /\ Size(r.pool) <= MaxSize
               /\ pool' = WithFault(r.pool, {})
               /\ last' = Call("Update", NoEv, ev, state, 0, r, "no", pre)
               /\ blockStore' = IF r.err = "" THEN
                                   [blockStore EXCEPT ![state.LastBlockHeight] = state.LastBlockTime]
                                ELSE blockStore
               /\ UNCHANGED <<th, others>>

NextFault ==
    \/ Forget
    \/ AddEvidenceFault
    \/ ReportConflictingVotesCall
    \/ UpdateFault

SpecFault == Init /\ [][NextFault]_vars

\* --------------------------------------------- the actions of SpecKeys
\* A pool of either key layout is handed valid evidence of heights on both
\* sides of the places where the encodings of a height grow by a digit or by
\* a byte, in any order, and lists it.
KeyHeights == {0, 2, 10, 16, 63, 64, 255}

KeyEvidence == [kind : Kinds, height : KeyHeights, time : {0}, valid : {TRUE}]

KeyState == [LastBlockHeight |-> 255, LastBlockTime |-> 0]

InitKeys ==
    /\ \E option \in {"v1", "v2"} :
        LET p == NewPool(EmptyDB, KeyState, option)
        IN  /\ pool = p
            /\ last = Call("NewPool", NoEv, <<>>, KeyState, 0, Ret(p, "", <<>>), "no", p)
    /\ blockStore = [h \in Heights |-> 0]
    /\ th = Idle
    /\ IdleOthers

AddEvidenceKeys ==
    /\ Size(pool) < MaxKeyEvidence
    /\ \E ev \in KeyEvidence :
        LET r == AddEvidence(pool, ev)
        IN  /\ pool' = r.pool
            /\ last' = Call("AddEvidence", ev, <<>>, pool.state, 0, r, "no", pool)
            /\ UNCHANGED <<blockStore, th, others>>

PendingEvidenceKeys ==
    LET r == PendingEvidence(pool, -1)
    IN  /\ pool' = r.pool
        /\ last' = Call("PendingEvidence", NoEv, <<>>, pool.state, -1, r, "no", pool)
        /\ UNCHANGED <<blockStore, th, others>>

NextKeys ==
    \/ AddEvidenceKeys
    \/ PendingEvidenceKeys

SpecKeys == InitKeys /\ [][NextKeys]_vars

\* --------------------------------------------- the actions of SpecOpen
\* A pool is opened on an empty store or on a store that software older than
\* the version record has filled under the v1 layout, is handed evidence, and
\* is closed and opened again (a restart), with any option and possibly under
\* a later state; while it is closed one pending entry of the store may
\* become undecodable.
OpenEvidence == {ev \in KeyEvidence : ev.height \in {2, 64, 255}}

LegacyEvidence == {ev \in OpenEvidence : ev.kind = "dup" /\ ev.height \in {2, 255}}

OpenStates == {KeyState, [LastBlockHeight |-> 255, LastBlockTime |-> 1]}

Options == {"", "v1", "v2"}

LegacyDB(evs) ==
    [data |-> [k \in {CalcKeyPending("v1", ev) : ev \in evs} |->
                  CHOOSE ev \in evs : CalcKeyPending("v1", ev) = k],
     version |-> "",
     fault |-> {}]

\* The pool as NewPool has it before the options are applied: no layout yet.
Closed(db, state) ==
    [evidenceStore |-> db,
     evidenceList |-> <<>>,
     evidenceSize |-> 0,
     state |-> state,
     consensusBuffer |-> <<>>,
     pruningHeight |-> 0,
     pruningTime |-> 0,
     dbKeyLayout |-> ""]

\* The record of NewPool(db, state, option): last.again is the option, last.n
\* is 1 when the pool is opened again and 0 when it is opened first, last.pre
\* holds the store as NewPool finds it.
Open(db, state, option, n, r) ==
    Call("NewPool", NoEv, <<>>, state, n, Ret(r.pool, r.err, <<>>), option, Closed(db, state))

\* NewPool returned an error and no pool.
Failed == last.op = "NewPool" /\ last.err # ""

\* The values of the entries of db under the pending prefix of a layout.
StoredPending(db, layout) ==
    {db.data[k] : k \in {x \in DOMAIN db.data : HasPrefix(x, PrefixToBytesPending(layout))}}

\* The store, and the store with one pending entry of its layout made
\* undecodable when it has none yet.
Damaged(db) ==
    {db} \cup
    IF \E k \in DOMAIN db.data : ~Decodable(db.data[k]) THEN {}
    ELSE {[db EXCEPT !.data[k].kind = "corrupt"] :
             k \in {x \in DOMAIN db.data : HasPrefix(x, PrefixToBytesPending(db.version))}}

InitOpen ==
    /\ \E evs \in SUBSET LegacyEvidence, option \in Options :
        LET db == LegacyDB(evs)
            r == newPool(db, KeyState, option)
        IN  /\ pool = r.pool
            /\ last = Open(db, KeyState, option, 0, r)
    /\ blockStore = [h \in Heights |-> 0]
    /\ th = Idle
    /\ IdleOthers

AddEvidenceOpen ==
    /\ ~Failed
    /\ Size(pool) < MaxKeyEvidence
    /\ \E ev \in OpenEvidence :
        LET r == AddEvidence(pool, ev)
        IN  /\ pool' = r.pool
            /\ last' = Call("AddEvidence", ev, <<>>, pool.state, 0, r, "no", pool)
            /\ UNCHANGED <<blockStore, th, others>>

Reopen ==
    \E option \in Options, state \in OpenStates, db \in Damaged(pool.evidenceStore) :
        /\ state.LastBlockTime >= pool.state.LastBlockTime
        /\ LET r == newPool(db, state, option)
           IN  /\ pool' = r.pool
               /\ last' = Open(db, state, option, 1, r)
               /\ UNCHANGED <<blockStore, th, others>>

NextOpen ==
    \/ AddEvidenceOpen
    \/ Reopen

SpecOpen == InitOpen /\ [][NextOpen]_vars

\* --------------------------------------------- the actions of SpecList
\* The pool's list as the CList it is: AddEvidence appends a node, Update
\* removes nodes as removeEvidenceFromList does, and a consumer (the gossip
\* routine) takes the front and follows next, one step at a time, between the
\* calls.
MaxNodes == 4           \* nodes the CList of SpecList allocates at most

ListEvidence == [kind : Kinds, height : 1..InitHeight, time : {0}, valid : {TRUE}]

CFront(l) == l.head

CNext(l, e) == l.nodes[e].next

CPushBack(l, v) ==
    LET e == Len(l.nodes) + 1
        linked == IF l.tail = 0 THEN l.nodes
                  ELSE [l.nodes EXCEPT ![l.tail].next = e]
    IN  [nodes |-> Append(linked, [value |-> v, next |-> 0, prev |-> l.tail,
                                   removed |-> FALSE, after |-> {}]),
         head |-> IF l.tail = 0 THEN e ELSE l.head,
         tail |-> e]

\* The elements linked after e, e not among them.
RECURSIVE After(_, _)
After(l, e) ==
    IF l.nodes[e].next = 0 THEN {}
    ELSE {l.nodes[e].next} \cup After(l, l.nodes[e].next)

\* Mutant (C31): the removed node loses its next pointer.
CRemoveDetachesNext(l, e) ==
    LET prev == l.nodes[e].prev
        next == l.nodes[e].next
        n1 == IF prev = 0 THEN l.nodes ELSE [l.nodes EXCEPT ![prev].next = next]
        n2 == IF next = 0 THEN n1 ELSE [n1 EXCEPT ![next].prev = prev]
    IN  [nodes |-> [n2 EXCEPT ![e].removed = TRUE, ![e].next = 0,
                              ![e].after = {x \in After(l, e) : ~l.nodes[x].removed}],
         head |-> IF prev = 0 THEN next ELSE l.head,
         tail |-> IF next = 0 THEN prev ELSE l.tail]

\* CList.Remove: the neighbours are linked to each other and the node is
\* marked removed; its own next pointer stays.
CRemove(l, e) ==
    LET prev == l.nodes[e].prev
        next == l.nodes[e].next
        n1 == IF prev = 0 THEN l.nodes ELSE [l.nodes EXCEPT ![prev].next = next]
        n2 == IF next = 0 THEN n1 ELSE [n1 EXCEPT ![next].prev = prev]
    IN  [nodes |-> [n2 EXCEPT ![e].removed = TRUE,
                              ![e].after = {x \in After(l, e) : ~l.nodes[x].removed}],
         head |-> IF prev = 0 THEN next ELSE l.head,
         tail |-> IF next = 0 THEN prev ELSE l.tail]

DetachPrev(l, e) == [l EXCEPT !.nodes[e].prev = 0]

\* removeEvidenceFromList on the nodes: from the front, following next, also
\* from a node that has just been removed.
RECURSIVE removeLoop(_, _, _)
removeLoop(l, e, blockEvidenceMap) ==
    IF e = 0 THEN l
    ELSE IF evMapKey(l.nodes[e].value) \in blockEvidenceMap
         THEN LET l2 == DetachPrev(CRemove(l, e), e)
              IN  removeLoop(l2, CNext(l2, e), blockEvidenceMap)
         ELSE removeLoop(l, CNext(l, e), blockEvidenceMap)

removeNodesFromList(l, blockEvidenceMap) == removeLoop(l, CFront(l), blockEvidenceMap)

\* The values of the list from the front.
RECURSIVE Chain(_, _)
Chain(l, e) == IF e = 0 THEN <<>> ELSE <<l.nodes[e].value>> \o Chain(l, CNext(l, e))

InitList ==
    /\ pool = NewPool(EmptyDB, InitState, "")
    /\ last = NoCall(NewPool(EmptyDB, InitState, ""))
    /\ blockStore = [h \in Heights |-> IF h <= InitHeight THEN 0 ELSE NoMeta]
    /\ th = Idle
    /\ clist = EmptyCList
    /\ cursor = NoCursor
    /\ IdleTypes
    /\ IdleLock
    /\ IdleCmd

AddEvidenceList ==
    /\ Len(clist.nodes) < MaxNodes
    /\ \E ev \in ListEvidence :
        LET r == AddEvidence(pool, ev)
        IN  /\ pool' = r.pool
            /\ clist' = IF Len(r.pool.evidenceList) > Len(pool.evidenceList)
                        THEN CPushBack(clist, ev) ELSE clist
            /\ UNCHANGED <<blockStore, last, th, cursor, typeVars, lockVars, cmdVars>>

\* Update removes from the list twice: the evidence it has committed, then
\* the evidence the pruning has found expired.
UpdateList ==
    \E state \in States, ev \in SeqsUpTo(ListEvidence, MaxBlockEvidence) :
        /\ state.LastBlockHeight > pool.state.LastBlockHeight
        /\ state.LastBlockTime >= pool.state.LastBlockTime
        /\ LET r == Update(pool, state, ev, blockStore)
               p1 == updateState(processConsensusBuffer(pool, state, blockStore), state)
               acc == markLoop([pool |-> p1, map |-> {}], ev, 1)
               p2 == markEvidenceAsCommitted(p1, ev)
               expired == {evMapKey(p2.evidenceList[i]) : i \in 1..Len(p2.evidenceList)} \
                          {evMapKey(r.pool.evidenceList[i]) : i \in 1..Len(r.pool.evidenceList)}
               l1 == IF acc.map # {} THEN removeNodesFromList(clist, acc.map) ELSE clist
               l2 == IF expired # {} THEN removeNodesFromList(l1, expired) ELSE l1
           IN  /\ pool' = r.pool
               /\ clist' = l2
               /\ blockStore' = [blockStore EXCEPT ![state.LastBlockHeight] = state.LastBlockTime]
               /\ UNCHANGED <<last, th, cursor, typeVars, lockVars, cmdVars>>

\* The consumer takes the front of the list.
ConsumerFront ==
    /\ cursor = NoCursor
    /\ CFront(clist) # 0
    /\ cursor' = CFront(clist)
    /\ UNCHANGED <<pool, blockStore, last, th, clist, typeVars, lockVars, cmdVars>>

\* The consumer follows next from the element it holds.
ConsumerNext ==
    /\ cursor # NoCursor
    /\ cursor' = CNext(clist, cursor)
    /\ UNCHANGED <<pool, blockStore, last, th, clist, typeVars, lockVars, cmdVars>>

NextList ==
    \/ AddEvidenceList
    \/ UpdateList
    \/ ConsumerFront
    \/ ConsumerNext

SpecList == InitList /\ [][NextList]_vars

\* -------------------------------------------- the actions of SpecTypes
\* The two evidence variants of package types, as the tests of
\* evidence_test.go build and malleate them.  A vote is nil or [Type, BlockID]
\* (Type 1 prevote, 2 precommit, 0 no vote type); a conflicting block is nil or
\* [Header, ValidatorSet], its header nil or [Height, id], its validator set
\* the number of its validators.
MaxBlockID == 3         \* block ids of the votes are 1..MaxBlockID
MaxHeaderHeight == 3    \* heights of the conflicting headers are 1..MaxHeaderHeight
MaxHeaderID == 1        \* a header is told from the others of its height by an id in 0..MaxHeaderID

\* The nil pointer.
Nil == [nil |-> TRUE]

Votes == {Nil} \cup [Type : {0, 1, 2}, BlockID : 1..MaxBlockID]

Headers == [Height : 1..MaxHeaderHeight, id : 0..MaxHeaderID]

LightBlocks == {Nil} \cup [Header : {Nil} \cup Headers, ValidatorSet : {0, 1}]

DuplicateVoteEvidences == [kind : {"dup"}, VoteA : Votes, VoteB : Votes]

LightClientAttackEvidences ==
    [kind : {"lca"}, ConflictingBlock : LightBlocks,
     CommonHeight : -1..(MaxHeaderHeight + 1), TotalVotingPower : {-1, 1}]

\* Mutant (C34): the order of the votes is not looked at.
dveValidateBasicAnyOrder(dve) ==
    IF dve.VoteA = Nil \/ dve.VoteB = Nil THEN "empty vote"
    ELSE IF dve.VoteA.Type = 0 \/ dve.VoteB.Type = 0 THEN "invalid vote"
    ELSE ""

\* DuplicateVoteEvidence.ValidateBasic: "" or the error.
dveValidateBasic(dve) ==
    IF dve.VoteA = Nil \/ dve.VoteB = Nil THEN "empty vote"
    ELSE IF dve.VoteA.Type = 0 \/ dve.VoteB.Type = 0 THEN "invalid vote"
    ELSE IF dve.VoteA.BlockID >= dve.VoteB.BlockID THEN "invalid order"
    ELSE ""

\* Mutant (C33): a common height equal to the conflicting height is refused.
lcaValidateBasicStrict(l) ==
    IF l.ConflictingBlock = Nil THEN "conflicting block is nil"
    ELSE IF l.ConflictingBlock.Header = Nil THEN "conflicting block missing header"
    ELSE IF l.TotalVotingPower < 0 THEN "negative total voting power"
    ELSE IF l.CommonHeight <= 0 THEN "negative or zero common height"
    ELSE IF l.CommonHeight >= l.ConflictingBlock.Header.Height THEN "common height ahead"
    ELSE IF l.ConflictingBlock.ValidatorSet = 0 THEN "invalid conflicting light block"
    ELSE ""

\* LightClientAttackEvidence.ValidateBasic: "" or the error.
lcaValidateBasic(l) ==
    IF l.ConflictingBlock = Nil THEN "conflicting block is nil"
    ELSE IF l.ConflictingBlock.Header = Nil THEN "conflicting block missing header"
    ELSE IF l.TotalVotingPower < 0 THEN "negative total voting power"
    ELSE IF l.CommonHeight <= 0 THEN "negative or zero common height"
    ELSE IF l.CommonHeight > l.ConflictingBlock.Header.Height THEN "common height ahead"
    ELSE IF l.ConflictingBlock.ValidatorSet = 0 THEN "invalid conflicting light block"
    ELSE ""

ValidateBasic(ev) == IF ev.kind = "dup" THEN dveValidateBasic(ev) ELSE lcaValidateBasic(ev)

\* LightClientAttackEvidence.Height().
lcaHeight(l) == l.CommonHeight

\* Header.Hash(), as bytes: headers that differ have hashes that differ.
HeaderHash(h) == <<h.id, h.Height>>

\* Mutant (C32): the hash is the hash of the conflicting header alone.
lcaHashHeaderOnly(l) == HeaderHash(l.ConflictingBlock.Header)

\* LightClientAttackEvidence.Hash(), as bytes: of the hash of the conflicting
\* header and of CommonHeight.
lcaHash(l) == HeaderHash(l.ConflictingBlock.Header) \o <<l.CommonHeight % 256>>

\* The pending key of light-client evidence under a layout.
lcaKeyPending(layout, l) ==
    IF layout = "v1"
    THEN <<baseKeyPending>> \o bE(lcaHeight(l)) \o <<47>> \o HexBytes(lcaHash(l))
    ELSE AppendInt64(prefixPending) \o AppendInt64(lcaHeight(l)) \o AppendString(lcaHash(l))

\* tv: the evidence (ev), the evidence it was made of (pre), how it was made
\* (op) and what ValidateBasic says of it (err).
Made(ev, pre, op) == [ev |-> ev, pre |-> pre, op |-> op, err |-> ValidateBasic(ev)]

InitTypes ==
    /\ pool = NewPool(EmptyDB, InitState, "")
    /\ last = NoCall(NewPool(EmptyDB, InitState, ""))
    /\ blockStore = [h \in Heights |-> IF h <= InitHeight THEN 0 ELSE NoMeta]
    /\ th = Idle
    /\ clist = EmptyCList
    /\ cursor = NoCursor
    /\ \E ev \in DuplicateVoteEvidences \cup LightClientAttackEvidences : tv = Made(ev, ev, "new")
    /\ IdleLock
    /\ IdleCmd

\* "Invalid vote order": the two votes are swapped.
SwapVotes ==
    /\ tv.op = "new" /\ tv.ev.kind = "dup"
    /\ tv.ev.VoteA # Nil /\ tv.ev.VoteB # Nil
    /\ tv' = Made([tv.ev EXCEPT !.VoteA = tv.ev.VoteB, !.VoteB = tv.ev.VoteA], tv.ev, "swap")
    /\ UNCHANGED <<pool, blockStore, last, th, clist, cursor, lockVars, cmdVars>>

\* "Different header": the conflicting header is replaced by another.
MalleateHeader ==
    /\ tv.op = "new" /\ tv.ev.kind = "lca"
    /\ tv.ev.ConflictingBlock # Nil
    /\ tv.ev.ConflictingBlock.Header # Nil
    /\ \E h \in Headers \ {tv.ev.ConflictingBlock.Header} :
        tv' = Made([tv.ev EXCEPT !.ConflictingBlock.Header = h], tv.ev, "header")
    /\ UNCHANGED <<pool, blockStore, last, th, clist, cursor, lockVars, cmdVars>>

\* "Different common height": CommonHeight is replaced by another.
MalleateCommonHeight ==
    /\ tv.op = "new" /\ tv.ev.kind = "lca"
    /\ \E c \in (-1..(MaxHeaderHeight + 1)) \ {tv.ev.CommonHeight} :
        tv' = Made([tv.ev EXCEPT !.CommonHeight = c], tv.ev, "commonHeight")
    /\ UNCHANGED <<pool, blockStore, last, th, clist, cursor, lockVars, cmdVars>>

NextTypes ==
    \/ SwapVotes
    \/ MalleateHeader
    \/ MalleateCommonHeight

SpecTypes == InitTypes /\ [][NextTypes]_vars

\* --------------------------------------------- the actions of SpecLock
\* Two threads call the methods of the pool; a step is the taking of the pool
\* mutex, the critical section with its deferred Unlock, an iteration of the
\* loop of processConsensusBuffer, or the part of a method between two uses
\* of the mutex.  A consumer of the list may wait on its wait channel.
MaxLockCalls == 2       \* calls each thread of SpecLock makes
MaxLiveCalls == 1       \* calls each thread of SpecLockLive makes
MaxLockHeight == 3      \* heights of the states and vote pairs handed to the pool in SpecLock

LockEvidence == {ev \in EvidenceInputs : ev.kind = "dup" /\ ev.valid}

LockVoteSets == [Height : InitHeight..MaxLockHeight]

LockStates == [LastBlockHeight : (InitHeight + 1)..MaxLockHeight, LastBlockTime : Times]

\* A thread: where it is in its call (pc), the method and its arguments, the
\* slice and the index of the range loop of processConsensusBuffer, where a
\* call of State() returns to (ret), and the calls the thread has left.
LockThread(pc, op, left) ==
    [pc |-> pc, op |-> op, ev |-> NoEv, evs |-> <<>>, state |-> InitState,
     voteSet |-> [Height |-> 0], buf |-> <<>>, i |-> 0, ret |-> "", left |-> left]

LockIdle(calls) == [t \in Threads |-> LockThread("idle", "none", calls)]

InitLock ==
    /\ pool = NewPool(EmptyDB, InitState, "")
    /\ last = NoCall(NewPool(EmptyDB, InitState, ""))
    /\ blockStore = [h \in Heights |-> IF h <= InitHeight THEN 0 ELSE NoMeta]
    /\ th = LockIdle(MaxLockCalls)
    /\ clist = EmptyCList
    /\ cursor = NoCursor
    /\ IdleTypes
    /\ IdleLock
    /\ IdleCmd

\* The same with fewer calls.
InitLockLive ==
    /\ pool = NewPool(EmptyDB, InitState, "")
    /\ last = NoCall(NewPool(EmptyDB, InitState, ""))
    /\ blockStore = [h \in Heights |-> IF h <= InitHeight THEN 0 ELSE NoMeta]
    /\ th = LockIdle(MaxLiveCalls)
    /\ clist = EmptyCList
    /\ cursor = NoCursor
    /\ IdleTypes
    /\ IdleLock
    /\ IdleCmd

\* Mutant (C36): Lock returns whether or not the mutex is held.
LockNotExclusive(t) == mtx' = t

\* mtx.Lock(): blocks while the mutex is held, by whatever thread.
Lock(t) == mtx = 0 /\ mtx' = t

\* Mutant (C39): the deferred Unlock is missing.
UnlockForgotten(t) == UNCHANGED mtx

\* mtx.Unlock().
Unlock(t) == mtx' = 0

LockFree(t) == th[t].pc \in {"idle", "done"} /\ th[t].left > 0

Called(t, op, pc) == LockThread(pc, op, th[t].left - 1)

Step(t, pc) == th' = [th EXCEPT ![t].pc = pc]

Finish(t) == th' = [th EXCEPT ![t] = LockThread("done", "none", th[t].left)]

CallAddEvidence(t) ==
    /\ LockFree(t)
    /\ \E ev \in LockEvidence :
        th' = [th EXCEPT ![t] = [Called(t, "AddEvidence", "addCheck") EXCEPT !.ev = ev]]
    /\ UNCHANGED <<pool, blockStore, last, clist, cursor, typeVars, lockVars, cmdVars>>

CallCheckEvidence(t) ==
    /\ LockFree(t)
    /\ \E ev \in LockEvidence :
        th' = [th EXCEPT ![t] = [Called(t, "CheckEvidence", "checkFast") EXCEPT !.evs = <<ev>>]]
    /\ UNCHANGED <<pool, blockStore, last, clist, cursor, typeVars, lockVars, cmdVars>>

CallPendingEvidence(t) ==
    /\ LockFree(t)
    /\ th' = [th EXCEPT ![t] = Called(t, "PendingEvidence", "pending")]
    /\ UNCHANGED <<pool, blockStore, last, clist, cursor, typeVars, lockVars, cmdVars>>

CallReportConflictingVotes(t) ==
    /\ LockFree(t)
    /\ \E voteSet \in LockVoteSets :
        th' = [th EXCEPT ![t] =
                 [Called(t, "ReportConflictingVotes", "rcvLock") EXCEPT !.voteSet = voteSet]]
    /\ UNCHANGED <<pool, blockStore, last, clist, cursor, typeVars, lockVars, cmdVars>>

CallState(t) ==
    /\ LockFree(t)
    /\ th' = [th EXCEPT ![t] = [Called(t, "State", "stLock") EXCEPT !.ret = "done"]]
    /\ UNCHANGED <<pool, blockStore, last, clist, cursor, typeVars, lockVars, cmdVars>>

\* The block of the new state is in the block store when Update is called.
CallUpdate(t) ==
    /\ LockFree(t)
    /\ \E state \in LockStates, ev \in SeqsUpTo(LockEvidence, MaxBlockEvidence) :
        /\ th' = [th EXCEPT ![t] =
                    [Called(t, "Update", "updCheck") EXCEPT !.state = state, !.evs = ev]]
        /\ blockStore' = [blockStore EXCEPT ![state.LastBlockHeight] = state.LastBlockTime]
    /\ UNCHANGED <<pool, last, clist, cursor, typeVars, lockVars, cmdVars>>

\* The consumer takes the wait channel of the list.
CallEvidenceWaitChan(t) ==
    /\ LockFree(t)
    /\ th' = [th EXCEPT ![t] = Called(t, "EvidenceWaitChan", "waiting")]
    /\ UNCHANGED <<pool, blockStore, last, clist, cursor, typeVars, lockVars, cmdVars>>

\* ... and receives from it: the channel is closed once the list holds an element.
WaitChanReceive(t) ==
    /\ th[t].pc = "waiting"
    /\ pool.evidenceList # <<>>
    /\ Finish(t)
    /\ UNCHANGED <<pool, blockStore, last, clist, cursor, typeVars, lockVars, cmdVars>>

\* State(): Lock, and the read with the deferred Unlock.  The calls of
\* State() one isExpired makes are taken as one.
StateLock(t) ==
    /\ th[t].pc = "stLock"
    /\ Lock(t)
    /\ Step(t, "stRead")
    /\ UNCHANGED <<pool, blockStore, last, clist, cursor, typeVars, reported, examined, cmdVars>>

StateRead(t) ==
    /\ th[t].pc = "stRead"
    /\ Unlock(t)
    /\ IF th[t].ret = "done" THEN Finish(t) ELSE Step(t, th[t].ret)
    /\ UNCHANGED <<pool, blockStore, last, clist, cursor, typeVars, reported, examined, cmdVars>>

\* AddEvidence: the two checks; verify reads State(); the write and the push.
LockAddCheck(t) ==
    /\ th[t].pc = "addCheck"
    /\ IF isPending(pool, th[t].ev) \/ isCommitted(pool, th[t].ev) THEN Finish(t)
       ELSE th' = [th EXCEPT ![t].pc = "stLock", ![t].ret = "addWrite"]
    /\ UNCHANGED <<pool, blockStore, last, clist, cursor, typeVars, lockVars, cmdVars>>

LockAddWrite(t) ==
    /\ th[t].pc = "addWrite"
    /\ pool' = IF verify(pool, th[t].ev) # "" THEN pool
               ELSE PushBack(addPendingEvidence(pool, th[t].ev), th[t].ev)
    /\ Finish(t)
    /\ UNCHANGED <<blockStore, last, clist, cursor, typeVars, lockVars, cmdVars>>

\* CheckEvidence: fastCheck, and for evidence that is not pending the
\* verification (which reads State()) and the write.
LockCheckFast(t) ==
    /\ th[t].pc = "checkFast"
    /\ IF isPending(pool, th[t].evs[1]) THEN Finish(t)
       ELSE th' = [th EXCEPT ![t].pc = "stLock", ![t].ret = "checkRun"]
    /\ UNCHANGED <<pool, blockStore, last, clist, cursor, typeVars, lockVars, cmdVars>>

LockCheckRun(t) ==
    /\ th[t].pc = "checkRun"
    /\ pool' = CheckEvidence(pool, th[t].evs).pool
    /\ Finish(t)
    /\ UNCHANGED <<blockStore, last, clist, cursor, typeVars, lockVars, cmdVars>>

\* PendingEvidence takes no lock.
LockPending(t) ==
    /\ th[t].pc = "pending"
    /\ Finish(t)
    /\ UNCHANGED <<pool, blockStore, last, clist, cursor, typeVars, lockVars, cmdVars>>

\* ReportConflictingVotes: Lock, and the append with the deferred Unlock.
RcvLock(t) ==
    /\ th[t].pc = "rcvLock"
    /\ Lock(t)
    /\ Step(t, "rcvAppend")
    /\ UNCHANGED <<pool, blockStore, last, clist, cursor, typeVars, reported, examined, cmdVars>>

RcvAppend(t) ==
    /\ th[t].pc = "rcvAppend"
    /\ pool' = ReportConflictingVotes(pool, th[t].voteSet).pool
    /\ reported' = Append(reported, th[t].voteSet)
    /\ Unlock(t)
    /\ Finish(t)
    /\ UNCHANGED <<blockStore, last, clist, cursor, typeVars, examined, cmdVars>>

\* Update: the sanity check reads the state without the mutex.
LockUpdCheck(t) ==
    /\ th[t].pc = "updCheck"
    /\ IF th[t].state.LastBlockHeight <= pool.state.LastBlockHeight
       THEN Finish(t) ELSE Step(t, "pcbLock")
    /\ UNCHANGED <<pool, blockStore, last, clist, cursor, typeVars, lockVars, cmdVars>>

\* processConsensusBuffer: Lock, and the range statement takes the slice.
PcbLock(t) ==
    /\ th[t].pc = "pcbLock"
    /\ Lock(t)
    /\ th' = [th EXCEPT ![t].pc = "pcbRange", ![t].buf = pool.consensusBuffer, ![t].i = 1]
    /\ UNCHANGED <<pool, blockStore, last, clist, cursor, typeVars, reported, examined, cmdVars>>

\* One iteration of the loop.
PcbIterate(t) ==
    /\ th[t].pc = "pcbRange"
    /\ th[t].i <= Len(th[t].buf)
    /\ pool' = flushOne(pool, th[t].buf[th[t].i], th[t].state, blockStore)
    /\ examined' = Append(examined, th[t].buf[th[t].i])
    /\ th' = [th EXCEPT ![t].i = @ + 1]
    /\ UNCHANGED <<blockStore, last, clist, cursor, typeVars, mtx, reported, cmdVars>>

\* The reset of the buffer after the loop, with the deferred Unlock.
PcbReset(t) ==
    /\ th[t].pc = "pcbRange"
    /\ th[t].i > Len(th[t].buf)
    /\ pool' = [pool EXCEPT !.consensusBuffer = <<>>]
    /\ Unlock(t)
    /\ th' = [th EXCEPT ![t].pc = "usLock", ![t].buf = <<>>, ![t].i = 0]
    /\ UNCHANGED <<blockStore, last, clist, cursor, typeVars, reported, examined, cmdVars>>

\* updateState: Lock, and the assignment with the deferred Unlock.
UsLock(t) ==
    /\ th[t].pc = "usLock"
    /\ Lock(t)
    /\ Step(t, "usSet")
    /\ UNCHANGED <<pool, blockStore, last, clist, cursor, typeVars, reported, examined, cmdVars>>

UsSet(t) ==
    /\ th[t].pc = "usSet"
    /\ pool' = updateState(pool, th[t].state)
    /\ Unlock(t)
    /\ Step(t, "mark")
    /\ UNCHANGED <<blockStore, last, clist, cursor, typeVars, reported, examined, cmdVars>>

\* markEvidenceAsCommitted, and the test for the pruning.
LockMark(t) ==
    /\ th[t].pc = "mark"
    /\ LET p == markEvidenceAsCommitted(pool, th[t].evs)
       IN  /\ pool' = p
           /\ IF Positive(Size(p)) /\ th[t].state.LastBlockHeight > p.pruningHeight
                                   /\ th[t].state.LastBlockTime > p.pruningTime
              THEN th' = [th EXCEPT ![t].pc = "stLock", ![t].ret = "prune"]
              ELSE Finish(t)
    /\ UNCHANGED <<blockStore, last, clist, cursor, typeVars, lockVars, cmdVars>>

\* removeExpiredPendingEvidence, which reads State().
LockPrune(t) ==
    /\ th[t].pc = "prune"
    /\ LET pr == removeExpiredPendingEvidence(pool)
       IN  pool' = [pr.pool EXCEPT !.pruningHeight = pr.height, !.pruningTime = pr.time]
    /\ Finish(t)
    /\ UNCHANGED <<blockStore, last, clist, cursor, typeVars, lockVars, cmdVars>>

\* The steps of a call that has been made.
Run(t) ==
    \/ WaitChanReceive(t)
    \/ StateLock(t)
    \/ StateRead(t)
    \/ LockAddCheck(t)
    \/ LockAddWrite(t)
    \/ LockCheckFast(t)
    \/ LockCheckRun(t)
    \/ LockPending(t)
    \/ RcvLock(t)
    \/ RcvAppend(t)
    \/ LockUpdCheck(t)
    \/ PcbLock(t)
    \/ PcbIterate(t)
    \/ PcbReset(t)
    \/ UsLock(t)
    \/ UsSet(t)
    \/ LockMark(t)
    \/ LockPrune(t)

NextLock ==
    \E t \in Threads :
        \/ CallAddEvidence(t)
        \/ CallCheckEvidence(t)
        \/ CallPendingEvidence(t)
        \/ CallReportConflictingVotes(t)
        \/ CallState(t)
        \/ CallUpdate(t)
        \/ CallEvidenceWaitChan(t)
        \/ Run(t)

SpecLock == InitLock /\ [][NextLock]_vars

\* Every thread that is in a call and can take a step takes one.
SpecLockLive == InitLockLive /\ [][NextLock]_vars /\ \A t \in Threads : WF_vars(Run(t))

\* ------------------------------------------- the actions of SpecReindex
\* The reindex-event command: the flags start-height and end-height (int64,
\* 0 when left out), a block store of blocks base..height (0, 0 when it is
\* empty) of which one block and the ABCI responses of one height may be
\* missing, and the run of the command to its end.
MaxStoreHeight == 3     \* the block store holds blocks up to this height at most
MaxFlag == 4            \* the flags are -1..MaxFlag

Flags == -1..MaxFlag

\* The block store and the state store: Base(), Height(), the heights of
\* which LoadBlock returns nil and LoadFinalizeBlockResponse an error, and
\* the number of transactions of each block.
Stores ==
    {bs \in [base : 0..MaxStoreHeight, height : 0..MaxStoreHeight,
             noBlock : 0..MaxStoreHeight, noResponse : 0..MaxStoreHeight,
             numTxs : 0..1] :
        /\ bs.base <= bs.height
        /\ bs.base = 0 <=> bs.height = 0}

LoadBlock(bs, h) ==
    IF h < bs.base \/ h > bs.height \/ h = 0 \/ h = bs.noBlock THEN Nil ELSE [Height |-> h]

LoadFinalizeBlockResponse(bs, h) ==
    IF h < bs.base \/ h > bs.height \/ h = 0 \/ h = bs.noResponse THEN Nil
    ELSE [Height |-> h, numTxs |-> bs.numTxs]

\* Mutant (C40): an end height above the height of the store is let through.
checkValidHeightNoCap(bs, startFlag, endFlag) ==
    LET start == IF startFlag = 0 THEN bs.base ELSE startFlag
        end == IF endFlag = 0 THEN bs.height ELSE endFlag
    IN  IF start < bs.base
        THEN [err |-> "ErrHeightNotAvailable", startHeight |-> start, endHeight |-> endFlag]
        ELSE IF start > bs.height
        THEN [err |-> "ErrHeightNotAvailable", startHeight |-> start, endHeight |-> endFlag]
        ELSE IF end < bs.base
        THEN [err |-> "ErrHeightNotAvailable", startHeight |-> start, endHeight |-> end]
        ELSE IF end < start
        THEN [err |-> "ErrInvalidRequest", startHeight |-> start, endHeight |-> end]
        ELSE [err |-> "", startHeight |-> start, endHeight |-> end]

\* checkValidHeight: the error and the flags as it leaves them.
checkValidHeight(bs, startFlag, endFlag) ==
    LET start == IF startFlag = 0 THEN bs.base ELSE startFlag
        end == IF endFlag = 0 \/ endFlag > bs.height THEN bs.height ELSE endFlag
    IN  IF start < bs.base
        THEN [err |-> "ErrHeightNotAvailable", startHeight |-> start, endHeight |-> endFlag]
        ELSE IF start > bs.height
        THEN [err |-> "ErrHeightNotAvailable", startHeight |-> start, endHeight |-> endFlag]
        ELSE IF end < bs.base
        THEN [err |-> "ErrHeightNotAvailable", startHeight |-> start, endHeight |-> end]
        ELSE IF end < start
        THEN [err |-> "ErrInvalidRequest", startHeight |-> start, endHeight |-> end]
        ELSE [err |-> "", startHeight |-> start, endHeight |-> end]

\* The command before Run: the flags as given (startFlag, endFlag) and as
\* the variables startHeight and endHeight hold them, the stores, the loop
\* variable, the heights indexed, and the error the run ended with.
InitReindex ==
    /\ pool = NewPool(EmptyDB, InitState, "")
    /\ last = NoCall(NewPool(EmptyDB, InitState, ""))
    /\ blockStore = [h \in Heights |-> IF h <= InitHeight THEN 0 ELSE NoMeta]
    /\ th = Idle
    /\ clist = EmptyCList
    /\ cursor = NoCursor
    /\ IdleTypes
    /\ IdleLock
    /\ \E startFlag \in Flags, endFlag \in Flags, bs \in Stores :
        reindex = [pc |-> "checkValidHeight", startFlag |-> startFlag, endFlag |-> endFlag,
                   startHeight |-> startFlag, endHeight |-> endFlag, bs |-> bs,
                   height |-> 0, indexed |-> <<>>, err |-> ""]

\* Run: checkValidHeight; an error is printed and the command returns.
CheckValidHeight ==
    /\ reindex.pc = "checkValidHeight"
    /\ LET r == checkValidHeight(reindex.bs, reindex.startHeight, reindex.endHeight)
       IN  reindex' = [reindex EXCEPT !.startHeight = r.startHeight,
                                      !.endHeight = r.endHeight,
                                      !.err = r.err,
                                      !.pc = IF r.err = "" THEN "loadEventSinks" ELSE "returned"]
    /\ UNCHANGED <<pool, blockStore, last, th, clist, cursor, typeVars, lockVars>>

\* Run: loadEventSinks returns the indexers or an error; eventReIndex starts
\* its loop at startHeight.
LoadEventSinks ==
    /\ reindex.pc = "loadEventSinks"
    /\ \E ok \in BOOLEAN :
        reindex' = IF ok THEN [reindex EXCEPT !.pc = "eventReIndex", !.height = reindex.startHeight]
                   ELSE [reindex EXCEPT !.pc = "returned", !.err = "loadEventSinks"]
    /\ UNCHANGED <<pool, blockStore, last, th, clist, cursor, typeVars, lockVars>>

\* One iteration of the loop of eventReIndex: the context may be done, the
\* block or the response may be missing, an indexer may fail.
ReIndexHeight ==
    /\ reindex.pc = "eventReIndex"
    /\ reindex.height <= reindex.endHeight
    /\ \E done \in BOOLEAN, fails \in {"", "AddBatch", "Index"} :
        LET h == reindex.height
            resp == LoadFinalizeBlockResponse(reindex.bs, h)
            Panic(err) == [reindex EXCEPT !.pc = "panic", !.err = err]
        IN  reindex' =
                IF done THEN Panic("terminated")
                ELSE IF LoadBlock(reindex.bs, h) = Nil THEN Panic("LoadBlock")
                ELSE IF resp = Nil THEN Panic("LoadFinalizeBlockResponse")
                ELSE IF resp.numTxs > 0 /\ fails = "AddBatch" THEN Panic("AddBatch")
                ELSE IF fails = "Index" THEN Panic("Index")
                ELSE [reindex EXCEPT !.indexed = Append(@, h), !.height = h + 1]
    /\ UNCHANGED <<pool, blockStore, last, th, clist, cursor, typeVars, lockVars>>

\* The loop ends: "event re-index finished".
ReIndexFinished ==
    /\ reindex.pc = "eventReIndex"
    /\ reindex.height > reindex.endHeight
    /\ reindex' = [reindex EXCEPT !.pc = "finished"]
    /\ UNCHANGED <<pool, blockStore, last, th, clist, cursor, typeVars, lockVars>>

NextReindex ==
    \/ CheckValidHeight
    \/ LoadEventSinks
    \/ ReIndexHeight
    \/ ReIndexFinished

SpecReindex == InitReindex /\ [][NextReindex]_vars

\* ------------------------------------------------------------ the claims
InList(p, ev) == \E i \in 1..Len(p.evidenceList) : p.evidenceList[i] = ev

PendingKeys(p) ==
    {k \in DOMAIN p.evidenceStore.data : HasPrefix(k, PrefixToBytesPending(p.dbKeyLayout))}

\* The evidence the pool can hold or be handed.
Known(p) == EvidenceInputs \cup PendingSet(p) \cup PendingSet(last.pre)

\* C2: after every public operation returns, Size() equals the number of
\* entries under the pending prefix of the evidence store.
C2_SizeIsPendingCount == Size(pool) = Cardinality(PendingKeys(pool))

\* C3: committed markers are permanent: evidence that is committed before a
\* call (AddEvidence, CheckEvidence, Update with its pruning, reopening the
\* pool) is committed after it.
C3_CommittedPermanent ==
    \A ev \in Evidence : isCommitted(last.pre, ev) => isCommitted(pool, ev)

C3_Witness ==
    /\ last.op = "Update" /\ last.err = "" /\ last.evs = <<>>
    /\ \E ev \in Evidence : isCommitted(last.pre, ev)
    /\ PendingSet(pool) # PendingSet(last.pre)
    /\ Size(pool) < Size(last.pre)

\* C4, as claimed: after Update(newState, committed) every ev of committed is
\* committed, not pending and not in the in-memory list, and Size() has dropped
\* by one exactly when ev was pending before the call.
C4_Original ==
    (last.op = "Update" /\ last.err = "") =>
        \A i \in 1..Len(last.evs) :
            LET ev == last.evs[i]
            IN  /\ isCommitted(pool, ev)
                /\ ~isPending(pool, ev)
                /\ ~InList(pool, ev)
                /\ (Size(pool) = Size(last.pre) - 1) <=> isPending(last.pre, ev)

\* The Update does nothing to Size() but mark ev: the consensus buffer is
\* empty, ev is the only evidence committed, and no pending evidence is
\* expired under the new state.
OnlyMarks(ev) ==
    /\ last.pre.consensusBuffer = <<>>
    /\ \A j \in 1..Len(last.evs) : last.evs[j] = ev
    /\ \A e \in PendingSet(last.pre) :
          ~isExpired(updateState(last.pre, last.state), e.height, e.time)

\* C4, amended: after Update(newState, committed) every ev of committed is
\* committed, not pending and not in the in-memory list; Size() has dropped by
\* one exactly when ev was pending before the call, provided the Update flushes
\* no vote pair, commits no other evidence and finds no pending evidence expired.
C4_CommittedAfterUpdate ==
    (last.op = "Update" /\ last.err = "") =>
        \A i \in 1..Len(last.evs) :
            LET ev == last.evs[i]
            IN  /\ isCommitted(pool, ev)
                /\ ~isPending(pool, ev)
                /\ ~InList(pool, ev)
                /\ OnlyMarks(ev) =>
                      ((Size(pool) = Size(last.pre) - 1) <=> isPending(last.pre, ev))

C4_Witness ==
    /\ last.op = "Update" /\ last.err = "" /\ Len(last.evs) = 1
    /\ OnlyMarks(last.evs[1])
    /\ isPending(last.pre, last.evs[1])
    /\ InList(last.pre, last.evs[1])
    /\ Size(pool) = Size(last.pre) - 1

\* The evidence a call wrote under the pending prefix, and the pool whose
\* state it was written under: Update flushes the consensus buffer before it
\* takes the new state.
WrittenBy(c) ==
    IF c.op = "Update" /\ c.err = ""
    THEN PendingSet(processConsensusBuffer(c.pre, c.state, blockStore)) \ PendingSet(c.pre)
    ELSE IF c.op \in {"AddEvidence", "CheckEvidence"}
    THEN PendingSet(pool) \ PendingSet(c.pre)
    ELSE {}

\* C6: every evidence written under the pending prefix is not expired at the
\* moment it is written, through AddEvidence, CheckEvidence and the flush of
\* the consensus buffer in Update.
C6_NotExpiredWhenWritten ==
    \A ev \in WrittenBy(last) : ~isExpired(last.pre, ev.height, ev.time)

\* C7: AddEvidence(ev) for an ev that is neither pending nor committed and is
\* expired under the pool's state returns InvalidEvidence and changes nothing.
C7_ExpiredRejected ==
    (/\ last.op = "AddEvidence"
     /\ ~isPending(last.pre, last.ev)
     /\ ~isCommitted(last.pre, last.ev)
     /\ isExpired(last.pre, last.ev.height, last.ev.time)) =>
        /\ last.err = "InvalidEvidence"
        /\ pool = last.pre

C7_Witness ==
    /\ last.op = "AddEvidence"
    /\ last.ev.valid
    /\ ~isPending(last.pre, last.ev)
    /\ ~isCommitted(last.pre, last.ev)
    /\ isExpired(last.pre, last.ev.height, last.ev.time)
    /\ last.err = "InvalidEvidence"

\* C8: for a valid ev that is neither pending nor committed, after
\* AddEvidence(ev) returns ok ev is stored under the pending prefix, is in the
\* in-memory list and Size() has grown by one; the PendingEvidence(-1) called
\* next returns a list containing ev.
C8_AddedIsPending ==
    /\ (/\ last.op = "AddEvidence"
        /\ last.err = ""
        /\ ~isPending(last.pre, last.ev)
        /\ ~isCommitted(last.pre, last.ev)) =>
            /\ verify(last.pre, last.ev) = ""
            /\ isPending(pool, last.ev)
            /\ InList(pool, last.ev)
            /\ Size(pool) = Size(last.pre) + 1
    /\ (last.op = "PendingEvidence" /\ last.again = "afterAdded") =>
            \E i \in 1..Len(last.out) : last.out[i] = last.ev

C8_Witness ==
    /\ last.op = "PendingEvidence" /\ last.again = "afterAdded"
    /\ Len(last.out) = 2
    /\ Size(pool) = 2
    /\ \E i \in 1..Len(last.out) : last.out[i] = last.ev
    /\ InList(pool, last.ev)

\* C9, as claimed: for every ev, a second AddEvidence(ev) right after the
\* first returns ok and leaves the pool as the first call left it.
C9_Original ==
    (last.op = "AddEvidence" /\ last.again # "no") =>
        /\ last.err = ""
        /\ pool = last.pre

\* C9, amended: a second AddEvidence(ev) right after the first leaves the pool
\* as the first call left it; it returns ok when the first returned ok, and
\* InvalidEvidence again when the first returned an error.
C9_Idempotent ==
    (last.op = "AddEvidence" /\ last.again # "no") =>
        /\ pool = last.pre
        /\ last.again = "afterOk" => last.err = ""
        /\ last.again = "afterErr" => last.err = "InvalidEvidence"

C9_Witness ==
    /\ last.op = "AddEvidence" /\ last.again = "afterOk"
    /\ isPending(pool, last.ev)
    /\ InList(pool, last.ev)
    /\ last.err = ""

\* C10: AddEvidence(ev) for a committed ev returns ok without verifying ev and
\* changes nothing: ev is not added again, Size() is as before, ev stays
\* committed.
C10_CommittedIgnored ==
    (last.op = "AddEvidence" /\ isCommitted(last.pre, last.ev)) =>
        /\ last.err = ""
        /\ pool = last.pre
        /\ isCommitted(pool, last.ev)
        /\ ~isPending(pool, last.ev)
        /\ ~InList(pool, last.ev)

C10_Witness ==
    /\ last.op = "AddEvidence"
    /\ isCommitted(last.pre, last.ev)
    /\ verify(last.pre, last.ev) # ""
    /\ last.err = ""


\* C1: in every reachable state, under any interleaving of the calls, no
\* evidence has both a pending-prefix entry and a committed-prefix entry.
C1_NotPendingAndCommitted ==
    \A ev \in Evidence : ~(isPending(pool, ev) /\ isCommitted(pool, ev))

\* C5: when AddEvidence(ev) for a valid ev has run concurrently with
\* Update(newState, [ev]) and both have returned, ev is committed and not
\* pending.
C5_AddRacesUpdate ==
    \A t \in Threads, u \in Threads :
        (/\ th[t].pc = "done" /\ th[t].op = "AddEvidence" /\ th[t].err = ""
         /\ th[u].pc = "done" /\ th[u].op = "Update" /\ th[u].err = ""
         /\ th[u].evs = <<th[t].ev>>) =>
            /\ isCommitted(pool, th[t].ev)
            /\ ~isPending(pool, th[t].ev)

\* The DuplicateVoteEvidence the claim expects of a vote pair flushed by
\* Update(newState, _): its Timestamp is newState.LastBlockTime when the votes
\* are of the height of newState, else Header.Time of the block-store meta at
\* the votes' height (an Update writes no meta below the height of its state).
TimeOfVotes(voteSet, newState) ==
    IF voteSet.Height = newState.LastBlockHeight THEN newState.LastBlockTime
    ELSE blockStore[voteSet.Height]

DveOfVotes(voteSet, newState) ==
    [kind |-> "dup", height |-> voteSet.Height,
     time |-> TimeOfVotes(voteSet, newState), valid |-> TRUE]

InBuffer(p, voteSet) == \E i \in 1..Len(p.consensusBuffer) : p.consensusBuffer[i] = voteSet

C12_ReportOnlyBuffers ==
    /\ last.op = "ReportConflictingVotes" =>
          /\ last.err = ""
          /\ pool = [last.pre EXCEPT !.consensusBuffer = Append(@, [Height |-> last.n])]
          /\ PendingSet(pool) = PendingSet(last.pre)
          /\ pool.evidenceList = last.pre.evidenceList
          /\ Size(pool) = Size(last.pre)
          /\ \A maxBytes \in -1..MaxBytes :
                PendingEvidence(pool, maxBytes).out = PendingEvidence(last.pre, maxBytes).out
    /\ last.op \in {"none", "AddEvidence", "CheckEvidence", "PendingEvidence"} =>
          pool.consensusBuffer = last.pre.consensusBuffer

C12_Witness ==
    /\ last.op = "ReportConflictingVotes"
    /\ last.n <= pool.state.LastBlockHeight
    /\ InBuffer(pool, [Height |-> last.n])
    /\ ~InBuffer(last.pre, [Height |-> last.n])
    /\ Size(pool) = 1
    /\ Len(PendingEvidence(pool, -1).out) = 1
    /\ \A e \in PendingSet(pool) : e.height # last.n

\* C13: after Update returns the consensus buffer is empty; a buffered pair
\* with VoteA.Height above the height of newState produces no evidence in that
\* Update and is not kept for a later one.
C13_BufferEmptied ==
    (last.op = "Update" /\ last.err = "") =>
        /\ pool.consensusBuffer = <<>>
        /\ \A voteSet \in VoteSets :
              (InBuffer(last.pre, voteSet) /\ voteSet.Height > last.state.LastBlockHeight) =>
                  /\ ~InBuffer(pool, voteSet)
                  /\ \A e \in PendingSet(pool) \ PendingSet(last.pre) :
                        e.height # voteSet.Height
                  /\ \A i \in 1..Len(pool.evidenceList) :
                        InList(last.pre, pool.evidenceList[i])
                        \/ pool.evidenceList[i].height # voteSet.Height

C13_Witness ==
    /\ last.op = "Update" /\ last.err = ""
    /\ \E voteSet \in VoteSets :
          /\ InBuffer(last.pre, voteSet)
          /\ voteSet.Height > last.state.LastBlockHeight
    /\ pool.consensusBuffer = <<>>
    /\ PendingSet(pool) = PendingSet(last.pre)

\* C14: Update(newState, _) with the height of newState at most the height of
\* the pool's state panics and changes nothing: the state, the consensus
\* buffer, both keyspaces, the in-memory list and Size() are as before.
C14_UpdatePanics ==
    (last.op = "Update" /\ last.state.LastBlockHeight <= last.pre.state.LastBlockHeight) =>
        /\ last.err = "panic"
        /\ pool = last.pre

C14_Witness ==
    /\ last.op = "Update" /\ last.err = "panic"
    /\ last.state.LastBlockHeight = last.pre.state.LastBlockHeight
    /\ last.state.LastBlockTime > last.pre.state.LastBlockTime
    /\ pool.consensusBuffer # <<>>
    /\ Size(pool) > 0
    /\ pool = last.pre

\* C15: after Update(newState, committed) returns, no evidence that is
\* expired under newState is left in the pending keyspace or in the in-memory
\* list (and so none is counted by Size()).
C15_NoExpiredAfterUpdate ==
    (last.op = "Update" /\ last.err = "") =>
        /\ \A e \in PendingSet(pool) : ~isExpired(pool, e.height, e.time)
        /\ \A i \in 1..Len(pool.evidenceList) :
              ~isExpired(pool, pool.evidenceList[i].height, pool.evidenceList[i].time)

\* C16: isExpired(h, t) is true exactly when the height age is above
\* MaxAgeNumBlocks and the time age is above MaxAgeDuration; evidence too old
\* by height only, by time only, or exactly at either bound is not expired.
C16_ExpiredIffBoth ==
    \A h \in Heights, t \in Times :
        LET tooOldByHeight == h + MaxAgeNumBlocks < pool.state.LastBlockHeight
            tooOldByTime == t + MaxAgeDuration < pool.state.LastBlockTime
        IN  /\ (tooOldByHeight /\ tooOldByTime) => isExpired(pool, h, t)
            /\ ~tooOldByHeight => ~isExpired(pool, h, t)
            /\ ~tooOldByTime => ~isExpired(pool, h, t)
            /\ h + MaxAgeNumBlocks = pool.state.LastBlockHeight => ~isExpired(pool, h, t)
            /\ t + MaxAgeDuration = pool.state.LastBlockTime => ~isExpired(pool, h, t)

\* Evidence too old by height only, its time exactly at the bound, is accepted
\* by AddEvidence, while some height and time is expired under the same state.
C16_Witness ==
    /\ last.op = "AddEvidence" /\ last.err = ""
    /\ ~isPending(last.pre, last.ev) /\ isPending(pool, last.ev)
    /\ last.ev.height + MaxAgeNumBlocks < pool.state.LastBlockHeight
    /\ last.ev.time + MaxAgeDuration = pool.state.LastBlockTime
    /\ ~isExpired(pool, last.ev.height, last.ev.time)

\* C17: for both key layouts and pending evidence of non-negative heights
\* added in any order, PendingEvidence(-1) returns every pending evidence, in
\* non-decreasing order of Height().
C17_PendingByHeight ==
    (last.op = "PendingEvidence" /\ last.n = -1) =>
        /\ \A i \in 1..Len(last.out), j \in 1..Len(last.out) :
              i < j => last.out[i].height <= last.out[j].height
        /\ {last.out[i] : i \in 1..Len(last.out)} = PendingSet(pool)

\* Three entries under the v2 layout, added in an order that is not the order
\* of their heights, with heights of one and of two bytes.
C17_Witness ==
    /\ last.op = "PendingEvidence" /\ last.n = -1
    /\ pool.dbKeyLayout = "v2"
    /\ Len(last.out) = 3
    /\ pool.evidenceList[1].height > pool.evidenceList[2].height
    /\ last.out[1].height = 16
    /\ last.out[2].height = 63
    /\ last.out[3].height = 64
    /\ last.out[2].kind = "lca" /\ last.out[3].kind = "dup"

\* The pending entries in the order of their keys, and the serialized size
\* of an evidence list.
PendingInKeyOrder(p) ==
    LET keys == IteratePrefix(p.evidenceStore, PrefixToBytesPending(p.dbKeyLayout))
    IN  [i \in 1..Len(keys) |-> p.evidenceStore.data[keys[i]]]

RECURSIVE ListSize(_)
ListSize(evs) == IF evs = <<>> THEN 0 ELSE ByteSize(Head(evs)) + ListSize(Tail(evs))

\* C18: PendingEvidence(maxBytes) with maxBytes # -1 returns the longest
\* prefix of the pending entries in key order whose serialized size is at most
\* maxBytes, stopping before the first entry that would exceed it; the byte
\* total returned is the size of the returned list; with maxBytes = -1 every
\* pending entry is returned.
C18_LongestPrefix ==
    last.op = "PendingEvidence" =>
        LET all == PendingInKeyOrder(last.pre)
            out == last.out
        IN  /\ Len(out) <= Len(all)
            /\ \A i \in 1..Len(out) : out[i] = all[i]
            /\ last.size = ListSize(out)
            /\ pool = last.pre
            /\ last.n = -1 => out = all
            /\ last.n # -1 =>
                  /\ ListSize(out) <= last.n
                  /\ Len(out) < Len(all) =>
                        ListSize(out) + ByteSize(all[Len(out) + 1]) > last.n

\* The first pending entry does not fit and a later, smaller one would: none
\* is returned.
C18_Witness ==
    /\ last.op = "PendingEvidence" /\ last.n = 1
    /\ last.out = <<>> /\ last.size = 0
    /\ Len(PendingInKeyOrder(pool)) = 2
    /\ ByteSize(PendingInKeyOrder(pool)[1]) = 2
    /\ ByteSize(PendingInKeyOrder(pool)[2]) = 1

\* C19: CheckEvidence(evList) for a list of evidence that verifies and is not
\* committed, two elements of which have the same hash, returns
\* DuplicateEvidence and writes nothing: the pending keyspace and Size() are
\* as before the call.
C19_DuplicateNoWrite ==
    (/\ last.op = "CheckEvidence"
     /\ \A i \in 1..Len(last.evs) :
           verify(last.pre, last.evs[i]) = "" /\ ~isCommitted(last.pre, last.evs[i])
     /\ \E i \in 1..Len(last.evs), j \in 1..Len(last.evs) :
           i # j /\ Hash(last.evs[i]) = Hash(last.evs[j])) =>
        /\ last.err = "DuplicateEvidence"
        /\ PendingSet(pool) = PendingSet(last.pre)
        /\ Size(pool) = Size(last.pre)

\* C20: CheckEvidence(evList) returns AlreadyCommitted when evList contains
\* evidence that is committed and no element before it is rejected, in every
\* state that calls of AddEvidence, CheckEvidence and Update reach.
C20_CommittedRejected ==
    last.op = "CheckEvidence" =>
        \A i \in 1..Len(last.evs) :
            (/\ isCommitted(last.pre, last.evs[i])
             /\ CheckEvidence(last.pre, SubSeq(last.evs, 1, i - 1)).err = "") =>
                last.err = "AlreadyCommitted"

\* C21: after CheckEvidence(evList) returns without error, the store failing
\* no write, every evidence of evList is stored under the pending prefix and
\* verifies under the pool's state unless it was pending before; evidence the
\* pool does not have and that does not verify makes the call return an error,
\* the verifier's own when that evidence is the first of the list.
C21_CheckedIsPending ==
    (last.op = "CheckEvidence" /\ last.pre.evidenceStore.fault = {}) =>
        /\ last.err = "" =>
              \A i \in 1..Len(last.evs) :
                  /\ isPending(pool, last.evs[i])
                  /\ isPending(last.pre, last.evs[i]) \/ verify(last.pre, last.evs[i]) = ""
        /\ \A i \in 1..Len(last.evs) :
              (~isPending(last.pre, last.evs[i]) /\ verify(last.pre, last.evs[i]) # "") =>
                  /\ last.err # ""
                  /\ (i = 1 /\ ~isCommitted(last.pre, last.evs[i])) =>
                        last.err = verify(last.pre, last.evs[i])

\* A list of two is accepted; neither was pending before.
C21_Witness ==
    /\ last.op = "CheckEvidence" /\ last.err = ""
    /\ Len(last.evs) = 2
    /\ \A i \in 1..2 : ~isPending(last.pre, last.evs[i]) /\ isPending(pool, last.evs[i])
    /\ Size(pool) = Size(last.pre) + 2

\* C22: when the write to the store fails during AddEvidence(ev), the call
\* returns an error and nothing changes: ev is not pending, is not in the
\* in-memory list and Size() is as before; the AddEvidence(ev) that follows on
\* a store that works does what a first call does.
C22_FailedWriteNoChange ==
    /\ (/\ last.op = "AddEvidence"
        /\ setFails(last.pre.evidenceStore)
        /\ ~isPending(last.pre, last.ev)
        /\ ~isCommitted(last.pre, last.ev)
        /\ verify(last.pre, last.ev) = "") =>
            /\ last.err = "StoreError"
            /\ pool = WithFault(last.pre, {})
            /\ ~isPending(pool, last.ev)
            /\ ~InList(pool, last.ev)
            /\ Size(pool) = Size(last.pre)
    /\ (/\ last.op = "AddEvidence"
        /\ last.again = "afterStoreError"
        /\ last.pre.evidenceStore.fault = {}) =>
            /\ last.err = ""
            /\ isPending(pool, last.ev)
            /\ InList(pool, last.ev)
            /\ Size(pool) = Size(last.pre) + 1

\* The retry of a failed AddEvidence stores the evidence.
C22_Witness ==
    /\ last.op = "AddEvidence"
    /\ last.again = "afterStoreError"
    /\ last.pre.evidenceStore.fault = {}
    /\ ~isPending(last.pre, last.ev)
    /\ ~InList(last.pre, last.ev)
    /\ isPending(pool, last.ev)
    /\ last.err = ""

\* C23: a failed delete, set or iterate on the evidence store during Update
\* does not abort it: Update returns normally, the pool's state is newState
\* and the consensus buffer is empty.
C23_UpdateSurvivesFaults ==
    (/\ last.op = "Update"
     /\ last.pre.evidenceStore.fault # {}
     /\ last.state.LastBlockHeight > last.pre.state.LastBlockHeight) =>
        /\ last.err = ""
        /\ pool.state = last.state
        /\ pool.consensusBuffer = <<>>

\* The delete of a committed evidence fails: it stays pending, and the update
\* is done.
C23_Witness ==
    /\ last.op = "Update" /\ last.err = ""
    /\ deleteFails(last.pre.evidenceStore)
    /\ Len(last.evs) = 1
    /\ isPending(last.pre, last.evs[1])
    /\ isPending(pool, last.evs[1])
    /\ last.pre.consensusBuffer # <<>>
    /\ pool.state = last.state
    /\ pool.consensusBuffer = <<>>

\* C24: when two concurrent Update calls have returned, the pool (state, both
\* keyspaces, in-memory list, Size, pruning thresholds) is the one that the
\* two calls run one after the other, in one of the two orders, leave, and each
\* call returned what it returns in that order.
C24_UpdatesLinearized ==
    (/\ last.op = "NewPool"
     /\ \A t \in Threads : th[t].pc = "done" /\ th[t].op = "Update") =>
        \E a \in Threads, b \in Threads :
            /\ a # b
            /\ LET r1 == Update(last.pre, th[a].state, th[a].evs, blockStore)
                   r2 == Update(r1.pool, th[b].state, th[b].evs, blockStore)
               IN  /\ pool = r2.pool
                   /\ th[a].err = r1.err
                   /\ th[b].err = r2.err

\* C26: whenever no call is in progress, every evidence of the in-memory
\* list has an entry under the pending prefix of the evidence store.
C26_ListedIsPending ==
    (\A t \in Threads : th[t].pc \in {"idle", "done"}) =>
        \A ev \in Evidence : InList(pool, ev) => isPending(pool, ev)

\* The evidence PendingEvidence(-1) returns.
PendingOut(p) ==
    LET out == PendingEvidence(p, -1).out
    IN  {out[i] : i \in 1..Len(out)}

\* C25: AddEvidence writes the pending key before it appends to the in-memory
\* list: at every step of an AddEvidence(ev) that no Update overlaps or
\* follows, ev is under the pending prefix when it is in the list, and once
\* the call has returned ok PendingEvidence(-1) includes ev.
C25_WriteBeforeEnqueue ==
    \A t \in Threads :
        (th[t].op = "AddEvidence" /\ ~th[t].disturbed) =>
            /\ InList(pool, th[t].ev) => isPending(pool, th[t].ev)
            /\ (th[t].pc = "done" /\ th[t].err = "") => th[t].ev \in PendingOut(pool)

\* C27: when the store holds a version record, NewPool selects the layout the
\* record names, whatever the caller asks for, and writes the same value back;
\* a store recorded as v2 is opened as v2 and its entries, unless expired, are
\* pending and returned by PendingEvidence(-1).
C27_VersionRecordWins ==
    (last.op = "NewPool" /\ last.pre.evidenceStore.version # "") =>
        /\ pool.dbKeyLayout = last.pre.evidenceStore.version
        /\ pool.evidenceStore.version = last.pre.evidenceStore.version
        /\ (last.pre.evidenceStore.version = "v2" /\ last.err = "") =>
              \A ev \in StoredPending(last.pre.evidenceStore, "v2") :
                  ~isExpired(pool, ev.height, ev.time) =>
                      isPending(pool, ev) /\ ev \in PendingOut(pool)

\* A store recorded as v2 that holds two entries is opened again with
\* WithDBKeyLayout("v1").
C27_Witness ==
    /\ last.op = "NewPool" /\ last.n = 1 /\ last.again = "v1" /\ last.err = ""
    /\ last.pre.evidenceStore.version = "v2"
    /\ Cardinality(StoredPending(last.pre.evidenceStore, "v2")) = 2
    /\ pool.dbKeyLayout = "v2"
    /\ Len(pool.evidenceList) = 2

\* C28: NewPool on a non-empty store without version record selects v1,
\* whatever the caller asks for, and reads all its entries; on an empty store
\* it selects the version the caller asks for, v1 when none is given.
C28_LegacyStoreIsV1 ==
    (last.op = "NewPool" /\ last.pre.evidenceStore.version = "") =>
        IF isEmpty(last.pre.evidenceStore)
        THEN pool.dbKeyLayout = (IF last.again = "" THEN "v1" ELSE last.again)
        ELSE /\ pool.dbKeyLayout = "v1"
             /\ \A ev \in StoredPending(last.pre.evidenceStore, "v1") :
                   ~isExpired(pool, ev.height, ev.time) => InList(pool, ev)

\* C29: when the pool is opened again on its store, every entry decodable,
\* NewPool succeeds; every evidence stored as pending and not expired under
\* the loaded state is returned by PendingEvidence(-1), Size() is the number
\* of pending entries of the store, the in-memory list holds those entries in
\* the order of their keys, and its front is of the lowest height.
C29_ReopenRecovers ==
    (/\ last.op = "NewPool" /\ last.n = 1
     /\ \A k \in DOMAIN last.pre.evidenceStore.data :
           Decodable(last.pre.evidenceStore.data[k])) =>
        /\ last.err = ""
        /\ \A ev \in StoredPending(last.pre.evidenceStore, last.pre.evidenceStore.version) :
              ~isExpired(pool, ev.height, ev.time) => ev \in PendingOut(pool)
        /\ Size(pool) = Cardinality(PendingKeys(pool))
        /\ pool.evidenceList = PendingInKeyOrder(pool)
        /\ \A ev \in PendingSet(pool) : pool.evidenceList[1].height <= ev.height

\* Three entries under the v2 layout, of heights whose keys are of one and of
\* two bytes, are recovered when the pool is opened again.
C29_Witness ==
    /\ last.op = "NewPool" /\ last.n = 1 /\ last.err = ""
    /\ pool.dbKeyLayout = "v2"
    /\ Cardinality(StoredPending(last.pre.evidenceStore, "v2")) = 3
    /\ Size(pool) = 3
    /\ pool.evidenceList[1].height = 2
    /\ pool.evidenceList[2].height = 64
    /\ pool.evidenceList[3].height = 255

\* C30: when a pending entry of the store cannot be deserialized, NewPool
\* succeeds: the entry is not in the in-memory list and is not counted, every
\* other pending entry that is not expired is loaded, and the undecodable
\* entry is in the store as it was.
C30_UndecodableSkipped ==
    (/\ last.op = "NewPool"
     /\ \E ev \in StoredPending(last.pre.evidenceStore, pool.dbKeyLayout) : ~Decodable(ev)) =>
        /\ last.err = ""
        /\ \A i \in 1..Len(pool.evidenceList) : Decodable(pool.evidenceList[i])
        /\ Size(pool) = Len(pool.evidenceList)
        /\ \A ev \in StoredPending(last.pre.evidenceStore, pool.dbKeyLayout) :
              (Decodable(ev) /\ ~isExpired(pool, ev.height, ev.time)) => InList(pool, ev)
        /\ \A k \in DOMAIN last.pre.evidenceStore.data :
              ~Decodable(last.pre.evidenceStore.data[k]) =>
                  /\ k \in DOMAIN pool.evidenceStore.data
                  /\ pool.evidenceStore.data[k] = last.pre.evidenceStore.data[k]

\* The elements a traversal from e reaches by following next, in at most n
\* steps, and whether it comes to nil within n steps.
RECURSIVE Reach(_, _, _)
Reach(l, e, n) ==
    IF e = 0 \/ n = 0 THEN {}
    ELSE {e} \cup Reach(l, CNext(l, e), n - 1)

RECURSIVE Ends(_, _, _)
Ends(l, e, n) ==
    IF e = 0 THEN TRUE
    ELSE IF n = 0 THEN FALSE
    ELSE Ends(l, CNext(l, e), n - 1)

\* C31: a consumer that holds an element which Update has removed reaches, by
\* following next from it, every element that was after it when it was removed
\* and is still in the list, and its traversal comes to the end; the nodes of
\* the list from the front are the elements of evidenceList.
C31_RemovedKeepsNext ==
    /\ Chain(clist, CFront(clist)) = pool.evidenceList
    /\ (cursor # 0 /\ clist.nodes[cursor].removed) =>
          /\ Ends(clist, cursor, Len(clist.nodes))
          /\ \A e \in clist.nodes[cursor].after :
                ~clist.nodes[e].removed =>
                    e \in Reach(clist, CNext(clist, cursor), Len(clist.nodes))

\* The consumer holds the first of three elements; Update has removed it and
\* the second, and the consumer reaches the third.
C31_Witness ==
    /\ cursor = 1
    /\ Len(clist.nodes) >= 3
    /\ clist.nodes[1].removed /\ clist.nodes[2].removed /\ ~clist.nodes[3].removed
    /\ CNext(clist, 1) = 2
    /\ 3 \in clist.nodes[1].after
    /\ 3 \in Reach(clist, CNext(clist, 1), Len(clist.nodes))

\* C32: Height() of LightClientAttackEvidence is CommonHeight, and evidence
\* made of another by a change of the header alone, or of CommonHeight alone,
\* has another hash and another pending key under both layouts.
C32_LcaHashOfBoth ==
    (tv.op # "none" /\ tv.ev.kind = "lca") =>
        /\ lcaHeight(tv.ev) = tv.ev.CommonHeight
        /\ (tv.op \in {"header", "commonHeight"}
              /\ tv.ev.ConflictingBlock # Nil /\ tv.ev.ConflictingBlock.Header # Nil) =>
              /\ lcaHash(tv.ev) # lcaHash(tv.pre)
              /\ \A layout \in {"v1", "v2"} :
                    lcaKeyPending(layout, tv.ev) # lcaKeyPending(layout, tv.pre)

\* Evidence of common height 2 below its conflicting height 3, made from
\* evidence of common height 1 and the same header.
C32_Witness ==
    /\ tv.op = "commonHeight"
    /\ tv.ev.ConflictingBlock # Nil /\ tv.ev.ConflictingBlock.Header # Nil
    /\ tv.ev.ConflictingBlock.Header.Height = 3
    /\ tv.pre.CommonHeight = 1 /\ tv.ev.CommonHeight = 2
    /\ lcaHeight(tv.ev) = 2
    /\ tv.err = ""
    /\ HeaderHash(tv.ev.ConflictingBlock.Header) = HeaderHash(tv.pre.ConflictingBlock.Header)

\* C33: ValidateBasic of LightClientAttackEvidence rejects a nil conflicting
\* block, a nil header, an empty validator set and a negative TotalVotingPower,
\* and of the rest accepts exactly those of
\* 1 <= CommonHeight <= ConflictingBlock.Header.Height.
C33_LcaValidateBasic ==
    (tv.op # "none" /\ tv.ev.kind = "lca") =>
        IF tv.ev.ConflictingBlock = Nil THEN tv.err # ""
        ELSE IF tv.ev.ConflictingBlock.Header = Nil THEN tv.err # ""
        ELSE IF tv.ev.ConflictingBlock.ValidatorSet = 0 THEN tv.err # ""
        ELSE IF tv.ev.TotalVotingPower < 0 THEN tv.err # ""
        ELSE tv.err = "" <=>
                /\ 1 <= tv.ev.CommonHeight
                /\ tv.ev.CommonHeight <= tv.ev.ConflictingBlock.Header.Height

\* "Height is equal to the divergent block": accepted.
C33_Witness ==
    /\ tv.op = "commonHeight"
    /\ tv.pre.CommonHeight = MaxHeaderHeight + 1
    /\ ValidateBasic(tv.pre) # ""
    /\ tv.ev.ConflictingBlock # Nil /\ tv.ev.ConflictingBlock.Header # Nil
    /\ tv.ev.CommonHeight = tv.ev.ConflictingBlock.Header.Height
    /\ tv.err = ""

\* C34: ValidateBasic of DuplicateVoteEvidence rejects a nil VoteA or VoteB
\* and a vote of invalid type, and rejects the evidence made of evidence it
\* accepts by swapping VoteA and VoteB.
C34_DveValidateBasic ==
    (tv.op # "none" /\ tv.ev.kind = "dup") =>
        /\ (tv.ev.VoteA = Nil \/ tv.ev.VoteB = Nil) => tv.err # ""
        /\ (tv.ev.VoteA # Nil /\ tv.ev.VoteB # Nil
              /\ (tv.ev.VoteA.Type = 0 \/ tv.ev.VoteB.Type = 0)) => tv.err # ""
        /\ (tv.op = "swap" /\ ValidateBasic(tv.pre) = "") => tv.err # ""

\* Valid evidence whose votes have been swapped.
C34_Witness ==
    /\ tv.op = "swap"
    /\ ValidateBasic(tv.pre) = ""
    /\ tv.ev.VoteA = tv.pre.VoteB /\ tv.ev.VoteB = tv.pre.VoteA
    /\ tv.err = "invalid order"

\* The pool of an Update when it comes to the pruning: the buffer flushed,
\* the state replaced, the evidence of the block marked.
BeforePruning ==
    markEvidenceAsCommitted(
        updateState(processConsensusBuffer(last.pre, last.state, blockStore), last.state),
        last.evs)

\* C35: the pruning of an Update deletes the pending entries in key order up
\* to the first entry ev that is not expired and makes (ev.Height() +
\* MaxAgeNumBlocks + 1, ev.Time() + MaxAgeDuration + 1s) the next pruning
\* height and time, ev and the entries after it are left; when no entry is
\* left unexpired they are the height and time of the state; every entry
\* deleted is taken from the list and lowers Size() by one.
C35_PrunedToFirstLive ==
    (last.op = "Update" /\ last.err = "") =>
        LET q == BeforePruning
            all == PendingInKeyOrder(q)
            live == {i \in 1..Len(all) : ~isExpired(q, all[i].height, all[i].time)}
            first == IF live = {} THEN Len(all) + 1
                     ELSE CHOOSE i \in live : \A j \in live : i <= j
            deleted == {all[i] : i \in 1..(first - 1)}
        IN  (/\ Size(q) # 0
             /\ last.state.LastBlockHeight > q.pruningHeight
             /\ last.state.LastBlockTime > q.pruningTime) =>
                /\ PendingInKeyOrder(pool) = SubSeq(all, first, Len(all))
                /\ pool.evidenceList = SelectSeq(q.evidenceList, LAMBDA e : e \notin deleted)
                /\ Size(pool) = Size(q) - (first - 1)
                /\ live # {} =>
                      /\ pool.pruningHeight = all[first].height + MaxAgeNumBlocks + 1
                      /\ pool.pruningTime = all[first].time + MaxAgeDuration + 1
                /\ live = {} =>
                      /\ pool.pruningHeight = last.state.LastBlockHeight
                      /\ pool.pruningTime = last.state.LastBlockTime

\* An Update that commits nothing and flushes nothing prunes one of two
\* pending entries and stops at the other.
C35_Witness ==
    /\ last.op = "Update" /\ last.err = ""
    /\ last.evs = <<>> /\ last.pre.consensusBuffer = <<>>
    /\ Size(last.pre) = 2 /\ Len(last.pre.evidenceList) = 2
    /\ Size(pool) = 1
    /\ Len(pool.evidenceList) = 1
    /\ PendingInKeyOrder(pool) = <<pool.evidenceList[1]>>
    /\ pool.pruningHeight = pool.evidenceList[1].height + MaxAgeNumBlocks + 1
    /\ pool.pruningHeight > pool.state.LastBlockHeight

\* C37: the list of pending evidence never holds two elements of the same
\* hash, whatever the interleaving of the AddEvidence and Update calls.
C37_NoDuplicateInList ==
    \A i, j \in 1..Len(pool.evidenceList) :
        Hash(pool.evidenceList[i]) = Hash(pool.evidenceList[j]) => i = j

\* C38: the counter of pending evidence is never lowered below zero (as a
\* uint32: never wraps), whatever the interleaving of the calls.
C38_CounterNeverWraps == pool.evidenceSize >= 0

\* The number of times v occurs in a sequence.
Count(seq, v) == Cardinality({i \in 1..Len(seq) : seq[i] = v})

\* The vote pairs appended and not yet examined: the buffer, or during a
\* flush what is left of the slice the loop ranges over and what has been
\* appended to the buffer since.
Unexamined ==
    IF \E t \in Threads : th[t].pc = "pcbRange"
    THEN LET t == CHOOSE u \in Threads : th[u].pc = "pcbRange"
         IN  SubSeq(th[t].buf, th[t].i, Len(th[t].buf))
                 \o SubSeq(pool.consensusBuffer, Len(th[t].buf) + 1, Len(pool.consensusBuffer))
    ELSE pool.consensusBuffer

\* C36: under concurrent ReportConflictingVotes and Update no vote pair is
\* lost or examined twice: every pair appended has been examined by one
\* flush or is still to be examined, by the flush in progress or the next.
C36_NoPairLostOrTwice ==
    /\ \A v \in LockVoteSets :
          Count(reported, v) = Count(examined, v) + Count(Unexamined, v)
    /\ Len(examined) + Len(Unexamined) = Len(reported)

\* A pair is appended while a flush that has examined another is between
\* processConsensusBuffer and updateState, and waits for the next flush.
C36_Witness ==
    /\ Len(reported) = 2 /\ Len(examined) = 1
    /\ pool.consensusBuffer = <<reported[2]>>
    /\ examined = <<reported[1]>>
    /\ \E t \in Threads : th[t].op = "Update" /\ th[t].pc \in {"usLock", "usSet"}

\* The steps at which a thread waits for the mutex.
AtLock(t) == th[t].pc \in {"stLock", "rcvLock", "pcbLock", "usLock"}

InPoolCall(t) ==
    th[t].op \in {"AddEvidence", "CheckEvidence", "PendingEvidence",
                  "ReportConflictingVotes", "State", "Update"}

\* C39: no call takes the mutex while it holds it, the mutex is held only by
\* a thread inside a critical section, none holds it while it waits on the
\* wait channel of the list, and every call of AddEvidence, CheckEvidence,
\* PendingEvidence, ReportConflictingVotes, State and Update returns.
C39_NoDeadlock ==
    /\ [](\A t \in Threads :
            /\ AtLock(t) => mtx # t
            /\ th[t].pc = "waiting" => mtx # t
            /\ mtx = t => th[t].pc \in {"stRead", "rcvAppend", "pcbRange", "usSet"})
    /\ \A t \in Threads : InPoolCall(t) ~> th[t].pc = "done"

\* A ReportConflictingVotes waits for the mutex that the flush of an Update
\* holds.
C39_Witness ==
    /\ mtx = 1 /\ th[1].op = "Update" /\ th[1].pc = "pcbRange"
    /\ th[2].op = "ReportConflictingVotes" /\ th[2].pc = "rcvLock"
    /\ ~ENABLED RcvLock(2)

\* The heights of a range of which the block or the response cannot be loaded.
Unloadable(bs, a, b) ==
    {h \in a..b : LoadBlock(bs, h) = Nil \/ LoadFinalizeBlockResponse(bs, h) = Nil}

\* C40: checkValidHeight returns no error exactly for the flags that, a
\* start of 0 taken as the base and an end of 0 or above the height of the
\* store as that height, give base <= start <= end <= height, and leaves
\* that range in startHeight and endHeight; eventReIndex indexes the heights
\* of the range once each, ascending, and stops at the first of which the
\* block or the response cannot be loaded.
C40_RangeCheckedAndIndexed ==
    reindex.pc \notin {"none", "checkValidHeight"} =>
        LET bs == reindex.bs
            start == IF reindex.startFlag = 0 THEN bs.base ELSE reindex.startFlag
            end == IF reindex.endFlag = 0 \/ reindex.endFlag > bs.height
                   THEN bs.height ELSE reindex.endFlag
            valid == bs.base <= start /\ start <= end /\ end <= bs.height
            passed == reindex.err \notin {"ErrHeightNotAvailable", "ErrInvalidRequest"}
            bad == Unloadable(bs, start, end)
            n == Len(reindex.indexed)
        IN  /\ passed <=> valid
            /\ ~passed => reindex.pc = "returned" /\ reindex.indexed = <<>>
            /\ passed =>
                  /\ reindex.startHeight = start /\ reindex.endHeight = end
                  /\ \A i \in 1..n : reindex.indexed[i] = start + i - 1
                  /\ start + n - 1 <= end
                  /\ \A i \in 1..n : reindex.indexed[i] \notin bad
                  /\ reindex.pc = "finished" => n = end - start + 1
                  /\ reindex.err \in {"LoadBlock", "LoadFinalizeBlockResponse"} =>
                        /\ start + n \in bad
                        /\ reindex.pc = "panic"
                  /\ (reindex.pc = "eventReIndex" /\ bad # {}) => reindex.height <= end

\* No flags on a store of the blocks 1..3 whose responses of height 3 are
\* missing: the heights 1 and 2 are indexed and the run stops at 3.
C40_Witness ==
    /\ reindex.pc = "panic" /\ reindex.err = "LoadFinalizeBlockResponse"
    /\ reindex.startFlag = 0 /\ reindex.endFlag = 0
    /\ reindex.bs.base = 1 /\ reindex.bs.height = 3
    /\ reindex.startHeight = 1 /\ reindex.endHeight = 3
    /\ reindex.indexed = <<1, 2>>
    /\ reindex.height = 3

====
